---- MODULE Spec2Model ----
(***************************************************************************)
(* A model of the encoders of cbor-diag: the annotated-hex encoder         *)
(* (src/src/encode/hex.rs) and the diagnostic encoder in its compact and   *)
(* pretty layouts (src/src/encode/diag.rs).                                *)
(*                                                                         *)
(* Text is modelled by TLA+ strings, one character per position.  A u64 is *)
(* a tuple of four 16-bit limbs, most significant first, and an i128       *)
(* magnitude a tuple of eight, so that every value of the type is          *)
(* represented exactly.  Styled output is modelled through the plain sink: *)
(* style scopes write nothing.                                             *)
(*                                                                         *)
(* The command-line program (src/cli/src/main.rs) is modelled as well: one *)
(* run of main, without --seq (the whole input is read, parsed according   *)
(* to --from and written once) and with --seq (the read / parse / drain    *)
(* loop).                                                                  *)
(***************************************************************************)
EXTENDS Integers, Sequences, FiniteSets

VARIABLES
    item,   \* the Value / DataItem handed to the encoder
    op,     \* "none" before the call, then the entry point that was called
    out,    \* the call's result: [ok |-> it returned, s |-> the text]
    args,   \* main: the parsed command line [seq, from, to]
    stdin,  \* main: the bytes of standard input not read yet
    buffer, \* main: data, the buffer of bytes read and not consumed yet
    parsed, \* main: the items parsed so far, in order
    stdout, \* main: what was written to standard output, one entry per write
    pc,     \* main: where the run is
    result  \* main: "running", then what main returned

encoderVars == <<item, op, out>>

mainVars == <<args, stdin, buffer, parsed, stdout, pc, result>>

vars == <<item, op, out, args, stdin, buffer, parsed, stdout, pc, result>>

(***************************************************************************)
(* Bounds of the model.                                                    *)
(***************************************************************************)
\* integer arguments lie within MaxDelta of a boundary between two widths
MaxDelta == 2
\* byte strings handed to the hex encoder have 0..MaxBytes bytes
MaxBytes == 34
\* Simple values 0..MaxSimple, and the MaxDelta below 256
MaxSimple == 40
\* byte strings handed to the diagnostic encoder have 0..MaxDiagBytes bytes
MaxDiagBytes == 4
\* text strings have at most MaxText characters
MaxText == 28
\* containers have at most MaxItems elements
MaxItems == 2
\* the input of a run of main without --seq has at most MaxInput bytes
MaxInput == 3
\* the input of a run of main with --seq has at most MaxSeqInput bytes
MaxSeqInput == 4

(***************************************************************************)
(* Characters and strings.                                                 *)
(***************************************************************************)
Char(s, i) == SubSeq(s, i, i)

Contains(s, c) == \E i \in 1..Len(s) : Char(s, i) = c

StartsWith(s, p) == Len(s) >= Len(p) /\ SubSeq(s, 1, Len(p)) = p

EndsWith(s, p) == Len(s) >= Len(p) /\ SubSeq(s, Len(s) - Len(p) + 1, Len(s)) = p

RECURSIVE Repeat(_, _)
Repeat(c, n) == IF n <= 0 THEN "" ELSE c \o Repeat(c, n - 1)

HexAlphabet == "0123456789abcdef"

DigitChar(d) == Char(HexAlphabet, d + 1)

DigitVal(c) == CHOOSE d \in 0..15 : DigitChar(d) = c

IsDigitOf(c, base) == \E d \in 0..(base - 1) : DigitChar(d) = c

(***************************************************************************)
(* Fixed-width unsigned integers as limbs.                                 *)
(***************************************************************************)
LimbBase == 256 * 256

U64(n) == <<0, 0, n \div LimbBase, n % LimbBase>>

U64Max == <<LimbBase - 1, LimbBase - 1, LimbBase - 1, LimbBase - 1>>

IsZero(a) == \A i \in DOMAIN a : a[i] = 0

RECURSIVE LimbsLt(_, _)
LimbsLt(a, b) ==
    IF a = <<>> THEN FALSE
    ELSE IF Head(a) # Head(b) THEN Head(a) < Head(b)
    ELSE LimbsLt(Tail(a), Tail(b))

RECURSIVE AddAt(_, _, _)
AddAt(a, i, c) ==
    IF i = 0 THEN [limbs |-> a, carry |-> c]
    ELSE LET t == a[i] + c
         IN  AddAt([a EXCEPT ![i] = t % LimbBase], i - 1, t \div LimbBase)

\* a + k in the width of a; carry # 0 when the sum does not fit
LimbsAdd(a, k) == AddAt(a, Len(a), k)

RECURSIVE MulAt(_, _, _, _)
MulAt(a, m, i, c) ==
    IF i = 0 THEN [limbs |-> a, carry |-> c]
    ELSE LET t == a[i] * m + c
         IN  MulAt([a EXCEPT ![i] = t % LimbBase], m, i - 1, t \div LimbBase)

\* a * m + k in the width of a
LimbsMulAdd(a, m, k) == MulAt(a, m, Len(a), k)

RECURSIVE DivAt(_, _, _, _)
DivAt(a, d, i, r) ==
    IF i > Len(a) THEN [quot |-> a, rem |-> r]
    ELSE LET t == r * LimbBase + a[i]
         IN  DivAt([a EXCEPT ![i] = t \div d], d, i + 1, t % d)

LimbsDivMod(a, d) == DivAt(a, d, 1, 0)

RECURSIVE Digits(_, _)
Digits(a, base) ==
    IF IsZero(a) THEN ""
    ELSE LET qr == LimbsDivMod(a, base)
         IN  Digits(qr.quot, base) \o DigitChar(qr.rem)

\* Display for an unsigned integer: decimal, no leading zeros
to_string(a) == IF IsZero(a) THEN "0" ELSE Digits(a, 10)

\* format!("{:0width$x}", a): lowercase hex, zero-padded to AT LEAST width
LowerHex(a, width) ==
    LET d == IF IsZero(a) THEN "0" ELSE Digits(a, 16)
    IN  Repeat("0", width - Len(d)) \o d

RECURSIVE BitOr(_, _)
BitOr(a, b) ==
    IF a = 0 THEN b
    ELSE IF b = 0 THEN a
    ELSE 2 * BitOr(a \div 2, b \div 2) + (IF a % 2 = 1 \/ b % 2 = 1 THEN 1 ELSE 0)

(***************************************************************************)
(* Results of a call: it returns text, or it panics.                       *)
(***************************************************************************)
Ok(s) == [ok |-> TRUE, s |-> s]

Panic == [ok |-> FALSE, s |-> ""]

Cat(a, b) == IF a.ok /\ b.ok THEN Ok(a.s \o b.s) ELSE Panic

(***************************************************************************)
(* src/src/encode/hex.rs                                                   *)
(***************************************************************************)
IntegerWidth == {"Unknown", "Zero", "Eight", "Sixteen", "ThirtyTwo", "SixtyFour"}

u8_max_value == U64(255)

u16_max_value == U64(LimbBase - 1)

u32_max_value == <<0, 0, LimbBase - 1, LimbBase - 1>>

\* the width chosen for an Unknown bitwidth (the same code in all three encoders)
SelectWidth(value) ==
    IF LimbsLt(value, U64(24)) THEN "Zero"
    ELSE IF LimbsLt(value, u8_max_value) THEN "Eight"
    ELSE IF LimbsLt(value, u16_max_value) THEN "Sixteen"
    ELSE IF LimbsLt(value, u32_max_value) THEN "ThirtyTwo"
    ELSE "SixtyFour"

ResolveWidth(value, bitwidth) ==
    IF bitwidth = "Unknown" THEN SelectWidth(value) ELSE bitwidth

\* IntegerHeader with the Sixteen arm padding to 2 digits like the Eight arm
IntegerHeader_PadAsEight(value, bitwidth) ==
    CASE bitwidth = "Zero" -> LowerHex(value, 2)
      [] bitwidth = "Eight" -> "18 " \o LowerHex(value, 2)
      [] bitwidth = "Sixteen" -> "19 " \o LowerHex(value, 2)
      [] bitwidth = "ThirtyTwo" -> "1a " \o LowerHex(value, 8)
      [] bitwidth = "SixtyFour" -> "1b " \o LowerHex(value, 16)

IntegerHeader(value, bitwidth) ==
    CASE bitwidth = "Zero" -> LowerHex(value, 2)
      [] bitwidth = "Eight" -> "18 " \o LowerHex(value, 2)
      [] bitwidth = "Sixteen" -> "19 " \o LowerHex(value, 4)
      [] bitwidth = "ThirtyTwo" -> "1a " \o LowerHex(value, 8)
      [] bitwidth = "SixtyFour" -> "1b " \o LowerHex(value, 16)

integer_to_hex(value, bitwidth) ==
    LET w == ResolveWidth(value, bitwidth)
    IN  Ok(IntegerHeader(value, w) \o " # unsigned(" \o to_string(value) \o ")")

\* value + 0x20 is a u64 addition: with overflow checks it panics when the sum
\* does not fit, without them it wraps
NegativeHeader(value, bitwidth, checks) ==
    CASE bitwidth = "Zero" ->
            LET sum == LimbsAdd(value, 32)
            IN  IF sum.carry # 0 /\ checks THEN Panic
                ELSE Ok(LowerHex(sum.limbs, 2))
      [] bitwidth = "Eight" -> Ok("38 " \o LowerHex(value, 2))
      [] bitwidth = "Sixteen" -> Ok("39 " \o LowerHex(value, 4))
      [] bitwidth = "ThirtyTwo" -> Ok("3a " \o LowerHex(value, 8))
      [] bitwidth = "SixtyFour" -> Ok("3b " \o LowerHex(value, 16))

negative_to_hex(value, bitwidth, checks) ==
    LET w == ResolveWidth(value, bitwidth)
    IN  Cat(NegativeHeader(value, w, checks),
            Ok(" # negative(" \o to_string(value) \o ")"))

\* the characters of the bytes 0x20..0x7e; the backquote (0x60) cannot be
\* written in a string here, its place holds a space and no modelled byte
\* string contains that byte
AsciiPrintable ==
    " !\"#$%&'()*+,-./0123456789:;<=>?@ABCDEFGHIJKLMNOPQRSTUVWXYZ[\\]^_ abcdefghijklmnopqrstuvwxyz{|}~"

\* std::ascii::escape_default
escape_default(b) ==
    CASE b = 9 -> "\\t"
      [] b = 13 -> "\\r"
      [] b = 10 -> "\\n"
      [] b = 39 -> "\\'"
      [] b = 34 -> "\\\""
      [] b = 92 -> "\\\\"
      [] b \in 32..126 /\ b \notin {34, 39, 92} -> Char(AsciiPrintable, b - 31)
      [] OTHER -> "\\x" \o DigitChar(b \div 16) \o DigitChar(b % 16)

RECURSIVE EscapeAll(_)
EscapeAll(line) ==
    IF line = <<>> THEN "" ELSE escape_default(Head(line)) \o EscapeAll(Tail(line))

\* hex::encode
RECURSIVE hex_encode(_)
hex_encode(data) ==
    IF data = <<>> THEN ""
    ELSE DigitChar(Head(data) \div 16) \o DigitChar(Head(data) % 16)
         \o hex_encode(Tail(data))

\* slice::chunks(n)
RECURSIVE ChunksOf(_, _)
ChunksOf(data, n) ==
    IF data = <<>> THEN <<>>
    ELSE IF Len(data) <= n THEN <<data>>
    ELSE <<SubSeq(data, 1, n)>> \o ChunksOf(SubSeq(data, n + 1, Len(data)), n)

\* Chunks as slice::chunks_exact would give them: the short last chunk is lost
Chunks_Exact(data) ==
    LET all == ChunksOf(data, 16)
    IN  IF all # <<>> /\ Len(all[Len(all)]) < 16
        THEN SubSeq(all, 1, Len(all) - 1)
        ELSE all

Chunks(data) == ChunksOf(data, 16)

Min(a, b) == IF a < b THEN a ELSE b

Max(a, b) == IF a > b THEN a ELSE b

saturating_sub(a, b) == IF a > b THEN a - b ELSE 0

BytesHeader(length, bitwidth) ==
    CASE bitwidth = "Zero" -> LowerHex(LimbsAdd(length, 64).limbs, 2) \o " "
      [] bitwidth = "Eight" -> "58 " \o LowerHex(length, 2)
      [] bitwidth = "Sixteen" -> "59 " \o LowerHex(length, 4)
      [] bitwidth = "ThirtyTwo" -> "5a " \o LowerHex(length, 8)
      [] bitwidth = "SixtyFour" -> "5b " \o LowerHex(length, 16)

length_width(bitwidth) ==
    CASE bitwidth = "Zero" -> 0
      [] bitwidth = "Eight" -> 2
      [] bitwidth = "Sixteen" -> 4
      [] bitwidth = "ThirtyTwo" -> 8
      [] bitwidth = "SixtyFour" -> 16

\* base_width without the cmp::max against the width of the length field
base_width_DataOnly(data, bitwidth) == Min(Len(data) * 2, 32)

base_width(data, bitwidth) ==
    Max(Min(Len(data) * 2, 32), length_width(bitwidth))

PayloadLine(line, base) ==
    "   " \o hex_encode(line)
          \o Repeat(" ", saturating_sub(base, Len(line) * 2))
          \o " # \"" \o EscapeAll(line) \o "\"" \o "\n"

RECURSIVE PayloadLines(_, _)
PayloadLines(lines, base) ==
    IF lines = <<>> THEN ""
    ELSE PayloadLine(Head(lines), base) \o PayloadLines(Tail(lines), base)

\* bitwidth "None" is Option::None, the indefinite length: expect() panics
bytestring_to_hex(data, bitwidth) ==
    IF bitwidth = "None" THEN Panic
    ELSE
    LET length == U64(Len(data))
        w      == ResolveWidth(length, bitwidth)
        base   == base_width(data, w)
    IN  Ok(BytesHeader(length, w)
           \o Repeat(" ", saturating_sub(base, length_width(w)))
           \o " # bytes(" \o to_string(length) \o ")\n"
           \o PayloadLines(Chunks(data), base)
           \o (IF data = <<>>
               THEN "   " \o Repeat(" ", base) \o " # \"\"" \o "\n"
               ELSE ""))

SimpleName(value) ==
    CASE value = 20 -> "false, "
      [] value = 21 -> "true, "
      [] value = 22 -> "null, "
      [] value = 23 -> "undefined, "
      [] value \in 24..32 -> "reserved, "
      [] OTHER -> "unassigned, "

simple_to_hex(value) ==
    Ok((IF value < 24
        THEN LowerHex(U64(BitOr(224, value)), 2) \o " # "
        ELSE "f8 " \o LowerHex(U64(value), 2) \o " # ")
       \o SimpleName(value)
       \o "simple(" \o to_string(U64(value)) \o ")")

\* to_hex ending every rendering with a line break
to_hex_LineBreak(value, checks) ==
    CASE value.type = "Integer" ->
            Cat(integer_to_hex(value.value, value.bitwidth), Ok("\n"))
      [] value.type = "Negative" ->
            Cat(negative_to_hex(value.value, value.bitwidth, checks), Ok("\n"))
      [] value.type = "ByteString" -> bytestring_to_hex(value.data, value.bitwidth)
      [] value.type = "Simple" -> Cat(simple_to_hex(value.value), Ok("\n"))
      [] OTHER -> Panic

to_hex(value, checks) ==
    CASE value.type = "Integer" -> integer_to_hex(value.value, value.bitwidth)
      [] value.type = "Negative" -> negative_to_hex(value.value, value.bitwidth, checks)
      [] value.type = "ByteString" -> bytestring_to_hex(value.data, value.bitwidth)
      [] value.type = "Simple" -> simple_to_hex(value.value)
      [] OTHER -> Panic

(***************************************************************************)
(* src/src/encode/diag.rs: the length estimate                             *)
(*                                                                         *)
(* A usize is an integer; a negative n stands for 2^64 + n, the value a    *)
(* wrapped subtraction leaves.  An estimate is [ok, n]: ok is FALSE when   *)
(* the call panicked.                                                      *)
(***************************************************************************)
MAX == 60

Some(n) == [ok |-> TRUE, n |-> n]

NoEstimate == [ok |-> FALSE, n |-> 0]

\* a < b on usize
ULt(a, b) == IF (a < 0) = (b < 0) THEN a < b ELSE b < 0

\* a - b on usize: with overflow checks it panics when b > a, without it wraps
usize_sub(a, b, checks) ==
    IF ULt(a, b) /\ checks THEN NoEstimate ELSE Some(a - b)

\* f64::to_string on the modelled values (each is exact at every float width)
f64_to_string(v) ==
    CASE v.class = "nan" -> "NaN"
      [] v.class = "inf" -> (IF v.negative THEN "-inf" ELSE "inf")
      [] OTHER -> (IF v.negative THEN "-" ELSE "")
                  \o to_string(U64(v.int))
                  \o (IF v.frac = "" THEN "" ELSE "." \o v.frac)

\* the impls for ByteString, TextString, Tag and Simple, and the scalar arms
LeafEstimate(v) ==
    CASE v.type = "Integer" -> Len(to_string(v.value)) + 2
      [] v.type = "Negative" -> Len(to_string(v.value)) + 3
      [] v.type = "Float" -> Len(f64_to_string(v.f64)) + 3
      [] v.type = "Simple" -> Len(to_string(U64(v.value))) + 8
      [] v.type = "ByteString" -> Len(v.data) * 2 + 4
      [] v.type = "TextString" -> Len(v.text) + 2

TagEstimate(tag) == Len(to_string(tag)) + 2

RECURSIVE estimate(_, _, _), EstimateLoop(_, _, _, _, _, _), PairEstimate(_, _, _, _)

\* impl LengthEstimate for (T, U), given the estimate of the first component
PairEstimate(first, second, max, checks) ==
    IF ~first.ok THEN NoEstimate
    ELSE IF ULt(first.n, max)
    THEN LET budget == usize_sub(max, first.n, checks)
             rest   == IF budget.ok THEN estimate(second, budget.n, checks)
                       ELSE NoEstimate
         IN  IF rest.ok THEN Some(first.n + rest.n) ELSE NoEstimate
    ELSE first

\* the loop returning, when the bound is reached, the length before the
\* element that reached it
EstimateLoop_ReturnsStale(entries, elems, i, len, max, checks) ==
    IF i > Len(elems) THEN Some(len)
    ELSE LET budget == usize_sub(max, len, checks)
             e == IF ~budget.ok THEN NoEstimate
                  ELSE IF entries
                  THEN PairEstimate(estimate(elems[i][1], budget.n, checks),
                                    elems[i][2], budget.n, checks)
                  ELSE estimate(elems[i], budget.n, checks)
         IN  IF ~e.ok THEN NoEstimate
             ELSE IF ~ULt(len + e.n + 2, max) THEN Some(len)
             ELSE EstimateLoop(entries, elems, i + 1, len + e.n + 2, max, checks)

\* the loop of the Array, Map and Indefinite*String arms, from element i on
EstimateLoop(entries, elems, i, len, max, checks) ==
    IF i > Len(elems) THEN Some(len)
    ELSE LET budget == usize_sub(max, len, checks)
             e == IF ~budget.ok THEN NoEstimate
                  ELSE IF entries
                  THEN PairEstimate(estimate(elems[i][1], budget.n, checks),
                                    elems[i][2], budget.n, checks)
                  ELSE estimate(elems[i], budget.n, checks)
         IN  IF ~e.ok THEN NoEstimate
             ELSE IF ~ULt(len + e.n + 2, max) THEN Some(len + e.n + 2)
             ELSE EstimateLoop(entries, elems, i + 1, len + e.n + 2, max, checks)

\* impl LengthEstimate for DataItem
estimate(v, max, checks) ==
    CASE v.type = "Array" -> EstimateLoop(FALSE, v.items, 1, 4, max, checks)
      [] v.type = "Map" -> EstimateLoop(TRUE, v.entries, 1, 4, max, checks)
      [] v.type = "IndefiniteByteString" ->
            EstimateLoop(FALSE, v.bytestrings, 1, 4, max, checks)
      [] v.type = "IndefiniteTextString" ->
            EstimateLoop(FALSE, v.textstrings, 1, 4, max, checks)
      [] v.type = "Tag" ->
            PairEstimate(Some(TagEstimate(v.tag)), v.value, max, checks)
      [] OTHER -> Some(LeafEstimate(v))

\* [ok, b]: whether the call returned, and what
is_trivial(v, checks) ==
    LET e == estimate(v, MAX, checks)
    IN  [ok |-> e.ok, b |-> e.ok /\ ULt(e.n, MAX)]

(***************************************************************************)
(* src/src/encode/diag.rs: the rendering                                   *)
(***************************************************************************)
Contextual_new(layout) == [layout |-> layout, encoding |-> "Base16", indent |-> 0]

with_encoding(ctx, encoding) ==
    [layout |-> ctx.layout, encoding |-> encoding, indent |-> ctx.indent]

wrap(ctx) ==
    [layout |-> ctx.layout, encoding |-> ctx.encoding, indent |-> ctx.indent]

pretty(ctx) == ctx.layout = "Pretty"

\* with_indent setting the indentation instead of adding to it
with_indent_Absolute(ctx, n) ==
    [layout |-> ctx.layout, encoding |-> ctx.encoding, indent |-> n]

with_indent(ctx, n) ==
    [layout |-> ctx.layout, encoding |-> ctx.encoding, indent |-> ctx.indent + n]

indent(ctx) == Repeat(" ", ctx.indent)

WidthSuffix(bitwidth) ==
    CASE bitwidth = "Eight" -> "_0"
      [] bitwidth = "Sixteen" -> "_1"
      [] bitwidth = "ThirtyTwo" -> "_2"
      [] bitwidth = "SixtyFour" -> "_3"
      [] OTHER -> ""

fmt_Integer(ctx, value, bitwidth) ==
    Ok(to_string(value) \o WidthSuffix(bitwidth))

\* NegativeMagnitude computed in 64 bits, where value + 1 wraps
NegativeMagnitude_Wrapping64(value) == <<0, 0, 0, 0>> \o LimbsAdd(value, 1).limbs

\* -1i128 - i128::from(value): the magnitude, eight limbs wide; the sign is minus
NegativeMagnitude(value) == LimbsAdd(<<0, 0, 0, 0>> \o value, 1).limbs

fmt_Negative(ctx, value, bitwidth) ==
    Ok("-" \o to_string(NegativeMagnitude(value)) \o WidthSuffix(bitwidth))

FloatSuffix(bitwidth) ==
    CASE bitwidth = "Unknown" -> ""
      [] bitwidth = "Sixteen" -> "_1"
      [] bitwidth = "ThirtyTwo" -> "_2"
      [] bitwidth = "SixtyFour" -> "_3"

fmt_Float(ctx, value, bitwidth) ==
    Ok((IF value.class = "nan" THEN "NaN"
        ELSE IF value.class = "inf"
        THEN (IF value.negative THEN "-" ELSE "") \o "Infinity"
        ELSE LET s == f64_to_string(value)
             IN  s \o (IF ~Contains(s, ".") /\ ~Contains(s, "e") THEN ".0" ELSE ""))
       \o FloatSuffix(bitwidth))

fmt_Simple(ctx, value) ==
    Ok(CASE value = 20 -> "false"
         [] value = 21 -> "true"
         [] value = 22 -> "null"
         [] value = 23 -> "undefined"
         [] OTHER -> "simple(" \o to_string(U64(value)) \o ")")

\* char::escape_default on the two characters it is applied to
char_escape_default(c) == "\\" \o c

RECURSIVE EscapeText(_)
EscapeText(text) ==
    IF text = "" THEN ""
    ELSE LET c == Char(text, 1)
         IN  (IF c = "\"" \/ c = "\\" THEN char_escape_default(c) ELSE c)
             \o EscapeText(SubSeq(text, 2, Len(text)))

fmt_TextString(ctx, text) == Ok("\"" \o EscapeText(text) \o "\"")

STANDARD == "ABCDEFGHIJKLMNOPQRSTUVWXYZabcdefghijklmnopqrstuvwxyz0123456789+/"

URL_SAFE == "ABCDEFGHIJKLMNOPQRSTUVWXYZabcdefghijklmnopqrstuvwxyz0123456789-_"

\* base64 without padding over the given alphabet
RECURSIVE Base64Display(_, _)
Base64Display(data, alphabet) ==
    LET A(n) == Char(alphabet, n + 1)
    IN  IF data = <<>> THEN ""
        ELSE IF Len(data) = 1
        THEN A(data[1] \div 4) \o A((data[1] % 4) * 16)
        ELSE IF Len(data) = 2
        THEN A(data[1] \div 4) \o A((data[1] % 4) * 16 + data[2] \div 16)
             \o A((data[2] % 16) * 4)
        ELSE A(data[1] \div 4) \o A((data[1] % 4) * 16 + data[2] \div 16)
             \o A((data[2] % 16) * 4 + data[3] \div 64) \o A(data[3] % 64)
             \o Base64Display(SubSeq(data, 4, Len(data)), alphabet)

fmt_ByteString(ctx, data) ==
    Ok((IF ctx.encoding \in {"Base64Url", "Base64"} THEN "b64'" ELSE "h'")
       \o (CASE ctx.encoding = "Base64Url" -> Base64Display(data, URL_SAFE)
             [] ctx.encoding = "Base64" -> Base64Display(data, STANDARD)
             [] ctx.encoding = "Base16" -> hex_encode(data))
       \o "'")

\* TaggedContext with tag 23 left to the default arm: Base16 is not restored
TaggedContext_NoBase16(ctx, tag) ==
    CASE tag = U64(21) -> wrap(with_encoding(ctx, "Base64Url"))
      [] tag = U64(22) -> wrap(with_encoding(ctx, "Base64"))
      [] OTHER -> wrap(ctx)

\* the context the value of a tag is formatted in
TaggedContext(ctx, tag) ==
    CASE tag = U64(21) -> wrap(with_encoding(ctx, "Base64Url"))
      [] tag = U64(22) -> wrap(with_encoding(ctx, "Base64"))
      [] tag = U64(23) -> wrap(with_encoding(ctx, "Base16"))
      [] OTHER -> wrap(ctx)

\* Separator writing the space in the compact layout too
Separator_AlwaysSpace(this, trivial) ==
    "," \o (IF pretty(this) /\ ~trivial THEN "\n" \o indent(this) ELSE " ")

\* what is written between two elements of a container
Separator(this, trivial) ==
    "," \o (IF pretty(this)
            THEN (IF trivial THEN " " ELSE "\n" \o indent(this))
            ELSE "")

RECURSIVE fmt_DataItem(_, _, _), fmt_Container(_, _, _, _, _, _, _, _),
          fmt_Items(_, _, _, _, _, _), fmt_Element(_, _, _, _)

\* Contextual<&'a T> for the element type of a container: a DataItem, a
\* map entry, or a chunk of an indefinite string
fmt_Element(ctx, entries, e, checks) ==
    IF entries
    THEN Cat(fmt_DataItem(wrap(ctx), e[1], checks),
             Cat(Ok(":" \o (IF pretty(ctx) THEN " " ELSE "")),
                 fmt_DataItem(wrap(ctx), e[2], checks)))
    ELSE fmt_DataItem(wrap(ctx), e, checks)

\* the elements from the i-th on, each after the first behind a separator
fmt_Items(this, entries, items, trivial, i, checks) ==
    IF i > Len(items) THEN Ok("")
    ELSE Cat(Ok(IF i = 1
                THEN (IF pretty(this) /\ ~trivial THEN "\n" \o indent(this) ELSE "")
                ELSE Separator(this, trivial)),
             Cat(fmt_Element(this, entries, items[i], checks),
                 fmt_Items(this, entries, items, trivial, i + 1, checks)))

fmt_Container(ctx, entries, begin, items, end, definite, trivial, checks) ==
    LET this == with_indent(ctx, IF trivial THEN 0 ELSE 4)
    IN  Cat(Ok(begin \o (IF ~definite
                         THEN "_" \o (IF trivial /\ pretty(ctx) THEN " " ELSE "")
                         ELSE "")),
            Cat(fmt_Items(this, entries, items, trivial, 1, checks),
                Ok((IF pretty(ctx) /\ ~trivial THEN "," \o "\n" \o indent(ctx) ELSE "")
                   \o end)))

fmt_Tagged(ctx, tag, bitwidth, value, checks) ==
    Cat(Ok(to_string(tag) \o WidthSuffix(bitwidth) \o "("),
        Cat(fmt_DataItem(TaggedContext(ctx, tag), value, checks), Ok(")")))

fmt_DataItem(ctx, v, checks) ==
    LET container(entries, begin, items, end, definite) ==
            LET trivial == is_trivial(v, checks)
            IN  IF ~trivial.ok THEN Panic
                ELSE fmt_Container(wrap(ctx), entries, begin, items, end,
                                   definite, trivial.b, checks)
    IN  CASE v.type = "Integer" -> fmt_Integer(wrap(ctx), v.value, v.bitwidth)
          [] v.type = "Negative" -> fmt_Negative(wrap(ctx), v.value, v.bitwidth)
          [] v.type = "Float" -> fmt_Float(wrap(ctx), v.f64, v.bitwidth)
          [] v.type = "Simple" -> fmt_Simple(wrap(ctx), v.value)
          [] v.type = "Array" ->
                container(FALSE, "[", v.items, "]", v.bitwidth # "None")
          [] v.type = "Map" ->
                container(TRUE, "{", v.entries, "}", v.bitwidth # "None")
          [] v.type = "TextString" -> fmt_TextString(wrap(ctx), v.text)
          [] v.type = "IndefiniteTextString" ->
                container(FALSE, "(", v.textstrings, ")", FALSE)
          [] v.type = "ByteString" -> fmt_ByteString(wrap(ctx), v.data)
          [] v.type = "IndefiniteByteString" ->
                container(FALSE, "(", v.bytestrings, ")", FALSE)
          [] v.type = "Tag" -> fmt_Tagged(wrap(ctx), v.tag, v.bitwidth, v.value, checks)

compact_diag(v, checks) == fmt_DataItem(Contextual_new("Compact"), v, checks)

pretty_diag(v, checks) == fmt_DataItem(Contextual_new("Pretty"), v, checks)

(***************************************************************************)
(* The items the encoders are applied to.  A field holds values of one     *)
(* kind only, so the payload of each variant has a name of its own: data   *)
(* (bytes), text (characters), items, entries.                             *)
(***************************************************************************)
Integer(value, bitwidth) == [type |-> "Integer", value |-> value, bitwidth |-> bitwidth]

Negative(value, bitwidth) == [type |-> "Negative", value |-> value, bitwidth |-> bitwidth]

ByteString(data, bitwidth) == [type |-> "ByteString", data |-> data, bitwidth |-> bitwidth]

TextString(text, bitwidth) == [type |-> "TextString", text |-> text, bitwidth |-> bitwidth]

Simple(value) == [type |-> "Simple", value |-> value]

Array(items, bitwidth) == [type |-> "Array", items |-> items, bitwidth |-> bitwidth]

Float(f64, bitwidth) == [type |-> "Float", f64 |-> f64, bitwidth |-> bitwidth]

Map(entries, bitwidth) == [type |-> "Map", entries |-> entries, bitwidth |-> bitwidth]

IndefiniteByteString(bytestrings) ==
    [type |-> "IndefiniteByteString", bytestrings |-> bytestrings]

IndefiniteTextString(textstrings) ==
    [type |-> "IndefiniteTextString", textstrings |-> textstrings]

Tag(tag, bitwidth, value) ==
    [type |-> "Tag", tag |-> tag, bitwidth |-> bitwidth, value |-> value]

\* the u64 arguments: everything within MaxDelta of 0, 24, 2^8, 2^16, 2^32, 2^64
U64Samples ==
    {U64(n) : n \in 0..MaxDelta}
    \cup {U64(n) : n \in (24 - MaxDelta)..(24 + MaxDelta)}
    \cup {U64(n) : n \in (256 - MaxDelta)..(256 + MaxDelta)}
    \cup {U64(n) : n \in (LimbBase - MaxDelta)..(LimbBase + MaxDelta)}
    \cup {<<0, 0, LimbBase - 1, LimbBase - d>> : d \in 1..MaxDelta}
    \cup {<<0, 1, 0, d>> : d \in 0..MaxDelta}
    \cup {<<LimbBase - 1, LimbBase - 1, LimbBase - 1, LimbBase - d>> : d \in 1..MaxDelta}

\* byte i of a byte string is first + i * step (mod 256); none is 0x60
Fills == {<<97, 1>>, <<0, 0>>, <<34, 0>>, <<251, 4>>, <<9, 1>>}

Bytes(n, fill) == [i \in 1..n |-> (fill[1] + (i - 1) * fill[2]) % 256]

ByteSamples ==
    {Bytes(n, f) : n \in 0..MaxBytes, f \in Fills}
    \cup {Bytes(n, <<35, 0>>) : n \in {255, 256}}

SimpleSamples ==
    (0..MaxSimple) \cup ((256 - MaxDelta)..255)

HexValues ==
    {Integer(v, w) : v \in U64Samples, w \in IntegerWidth}
    \cup {Negative(v, w) : v \in U64Samples, w \in IntegerWidth}
    \cup {ByteString(d, w) : d \in ByteSamples, w \in IntegerWidth \cup {"None"}}
    \cup {Simple(n) : n \in SimpleSamples}
    \cup {TextString("a", "Zero"), Array(<<>>, "Zero")}

FloatWidth == {"Unknown", "Sixteen", "ThirtyTwo", "SixtyFour"}

Finite(negative, int, frac) ==
    [class |-> "finite", negative |-> negative, int |-> int, frac |-> frac]

\* floats that half, single and double precision all hold exactly
FloatSamples ==
    {[class |-> "nan", negative |-> FALSE, int |-> 0, frac |-> ""]}
    \cup {[class |-> "inf", negative |-> n, int |-> 0, frac |-> ""] : n \in BOOLEAN}
    \cup {Finite(n, i, f) : n \in BOOLEAN, i \in {1, 100}, f \in {"", "5", "25"}}
    \cup {Finite(FALSE, 0, ""), Finite(FALSE, 65504, "")}

TextChars == {"a", "\"", "\\", "\n"}

TextSamples ==
    {Repeat(c, n) : c \in TextChars, n \in 0..MaxText}
    \cup {c \o d : c \in TextChars, d \in TextChars}

TagSamples == {U64(21), U64(22), U64(23), U64(24), <<0, 1, 0, 0>>}

\* a byte string whose base16, base64 and base64url renderings all differ
BS == ByteString(<<251, 255>>, "Unknown")

DiagLeaves ==
    {Integer(v, w) : v \in U64Samples, w \in IntegerWidth}
    \cup {Negative(v, w) : v \in U64Samples, w \in IntegerWidth}
    \cup {Float(v, w) : v \in FloatSamples, w \in FloatWidth}
    \cup {Simple(n) : n \in SimpleSamples}
    \cup {ByteString(Bytes(n, f), "Unknown") : n \in 0..MaxDiagBytes, f \in Fills}
    \cup {TextString(t, "Unknown") : t \in TextSamples}

\* all sequences over S of at most n elements
RECURSIVE SeqsUpTo(_, _)
SeqsUpTo(S, n) ==
    IF n = 0 THEN {<<>>}
    ELSE LET shorter == SeqsUpTo(S, n - 1)
         IN  shorter \cup {Append(q, x) : q \in {r \in shorter : Len(r) = n - 1}, x \in S}

\* the elements that containers are built from
Scalars ==
    {Integer(U64(10), "Eight"), Simple(20),
     Float([class |-> "inf", negative |-> TRUE, int |-> 0, frac |-> ""], "SixtyFour"),
     BS, TextString("\n", "Unknown"), TextString(Repeat("\"", MaxText), "Unknown")}

TaggedStrings == {Tag(t, "Unknown", BS) : t \in {U64(21), U64(22), U64(23), U64(24)}}

Elements == Scalars \cup TaggedStrings

Keys == {Integer(U64(10), "Eight"), Tag(U64(21), "Unknown", BS)}

Values == {Simple(20), BS, Tag(U64(22), "Unknown", BS)}

Chunks16 == {ByteString(<<>>, "Unknown"), BS, ByteString(<<97>>, "Eight")}

ChunksText ==
    {TextString(t, "Unknown") : t \in {"", "a", "\"", Repeat("a", MaxText)}}

Containers1 ==
    {Array(q, w) : q \in SeqsUpTo(Elements, MaxItems), w \in {"None", "Unknown"}}
    \cup {Map(q, w) : q \in SeqsUpTo(Keys \X Values, MaxItems), w \in {"None", "Unknown"}}
    \cup {IndefiniteByteString(q) : q \in SeqsUpTo(Chunks16, MaxItems)}
    \cup {IndefiniteTextString(q) : q \in SeqsUpTo(ChunksText, MaxItems)}

Tagged1 ==
    {Tag(t, w, v) : t \in TagSamples, w \in {"Unknown", "Eight", "SixtyFour"},
                    v \in Scalars}

\* a tag around a container, and a tag around a tagged string
Tagged2 ==
    {Tag(t, "Unknown", v) : t \in {U64(21), U64(23)}, v \in Containers1}
    \cup {Tag(t, "Unknown", v) : t \in {U64(21), U64(22), U64(23), U64(24)},
                                 v \in TaggedStrings}

\* a container of containers
Containers2 ==
    {Array(q, "Unknown") :
        q \in SeqsUpTo({c \in Containers1 : c.type = "Array" /\ Len(c.items) = MaxItems
                                            /\ c.bitwidth = "None"}, 1) \ {<<>>}}

\* a container that is handed a budget of 1..3 by the estimate of its parent
NearBudget ==
    {Array(<<TextString(Repeat("a", n), "Unknown"), c>>, "Unknown") :
        n \in (MAX - 11)..(MAX - 9),
        c \in {Array(<<>>, "Unknown"), Array(<<Simple(20)>>, "Unknown"),
               Map(<< <<BS, Simple(20)>> >>, "None"), IndefiniteByteString(<<BS>>),
               Tag(U64(24), "Unknown", Array(<<Simple(20)>>, "Unknown"))}}

\* non-trivial containers inside non-trivial containers, directly, in a tag
\* and in a map entry
Nested ==
    LET long == TextString(Repeat("a", MaxText), "Unknown")
        inner == {Array(<<long, long>>, "Unknown"), Array(<<long, long>>, "None"),
                  IndefiniteTextString(<<long, long>>)}
    IN  {Array(<<Integer(U64(10), "Eight"), c>>, "Unknown") : c \in inner}
        \cup {Array(<<Tag(U64(24), "Eight", c), Array(<<c>>, "Unknown")>>, "None") :
                c \in inner}
        \cup {Map(<< <<Integer(U64(10), "Eight"), Tag(U64(24), "Unknown", c)>>,
                     <<c, Simple(20)>> >>, w) : c \in inner, w \in {"None", "Unknown"}}

DataItems ==
    DiagLeaves \cup Containers1 \cup Tagged1 \cup Tagged2 \cup Containers2
    \cup NearBudget
    \cup Nested

(***************************************************************************)
(* The annotated-hex encoder as a state machine: one call of               *)
(* Value::to_hex on an item.                                               *)
(***************************************************************************)
\* no run of main is modelled next to a call of an encoder
NoMain ==
    /\ args = [seq |-> FALSE, from |-> "none", to |-> "none"]
    /\ stdin = [bytes |-> <<>>, pos |-> 0]
    /\ buffer = <<>>
    /\ parsed = <<>>
    /\ stdout = <<>>
    /\ pc = "none"
    /\ result = [kind |-> "None"]

Init ==
    /\ item \in HexValues
    /\ op = "none"
    /\ out = Ok("")
    /\ NoMain

ToHex ==
    /\ op = "none"
    /\ \E checks \in BOOLEAN : out' = to_hex(item, checks)
    /\ op' = "to_hex"
    /\ UNCHANGED item
    /\ UNCHANGED mainVars

Next == ToHex

Spec == Init /\ [][Next]_vars

(***************************************************************************)
(* The diagnostic encoder as a state machine: one call of compact_diag or  *)
(* of pretty_diag on an item, formatted to a string.                       *)
(***************************************************************************)
InitDiag ==
    /\ item \in DataItems
    /\ op = "none"
    /\ out = Ok("")
    /\ NoMain

CompactDiag ==
    /\ op = "none"
    /\ \E checks \in BOOLEAN : out' = compact_diag(item, checks)
    /\ op' = "compact_diag"
    /\ UNCHANGED item
    /\ UNCHANGED mainVars

PrettyDiag ==
    /\ op = "none"
    /\ \E checks \in BOOLEAN : out' = pretty_diag(item, checks)
    /\ op' = "pretty_diag"
    /\ UNCHANGED item
    /\ UNCHANGED mainVars

NextDiag == CompactDiag \/ PrettyDiag

SpecDiag == InitDiag /\ [][NextDiag]_vars

(***************************************************************************)
(* The library functions main calls.  Their code is outside src/, so they  *)
(* are written after spec.md (4.1 binary decoder, 4.2 binary encoder, 4.3  *)
(* hex-text parser, 4.4 diagnostic parser), for the inputs of the runs     *)
(* below: items of major type 0, 1, 2 and 4 of definite length and simple  *)
(* values, hex text of digits, blanks and # comments, and diagnostic text  *)
(* of a decimal integer.  A byte is an integer 0..255 and text is the      *)
(* sequence of its ASCII bytes.                                            *)
(***************************************************************************)
\* what the decoder found at a position: an item and the position after it,
\* or an input that ends inside the item, or one that no item starts
Parsed(v, next) == [kind |-> "Some", item |-> v, next |-> next]

Truncated == [kind |-> "Truncated"]

Malformed == [kind |-> "Malformed"]

\* the bytes that follow the initial byte for an additional info of 0..27
AdditionalBytes(info) ==
    CASE info < 24 -> 0
      [] info = 24 -> 1
      [] info = 25 -> 2
      [] info = 26 -> 4
      [] info = 27 -> 8

InfoWidth(info) ==
    CASE info < 24 -> "Zero"
      [] info = 24 -> "Eight"
      [] info = 25 -> "Sixteen"
      [] info = 26 -> "ThirtyTwo"
      [] info = 27 -> "SixtyFour"

\* the u64 that 1, 2, 4 or 8 big-endian bytes hold
BigEndian(bs) ==
    LET b(i) == IF i + Len(bs) > 8 THEN bs[i + Len(bs) - 8] ELSE 0
    IN  <<b(1) * 256 + b(2), b(3) * 256 + b(4), b(5) * 256 + b(6), b(7) * 256 + b(8)>>

\* a length or count the remaining input can hold, else more than it holds
Count(arg, remaining) ==
    IF arg[1] = 0 /\ arg[2] = 0 /\ arg[3] = 0 /\ arg[4] <= remaining
    THEN arg[4] ELSE remaining + 1

RECURSIVE data_item(_, _)
RECURSIVE array_items(_, _, _, _)
data_item(bytes, pos) ==
    IF pos > Len(bytes) THEN Truncated
    ELSE LET initial == bytes[pos]
             major == initial \div 32
             info == initial % 32
         IN  IF info \in 28..30 THEN Malformed
             ELSE IF info = 31 /\ major \in {0, 1, 6, 7} THEN Malformed
             ELSE IF pos + AdditionalBytes(info) > Len(bytes) THEN Truncated
             ELSE
               LET after == pos + AdditionalBytes(info) + 1
                   arg == IF info < 24 THEN U64(info)
                          ELSE BigEndian(SubSeq(bytes, pos + 1, after - 1))
                   remaining == Len(bytes) - after + 1
                   n == Count(arg, remaining)
               IN  CASE major = 0 -> Parsed(Integer(arg, InfoWidth(info)), after)
                     [] major = 1 -> Parsed(Negative(arg, InfoWidth(info)), after)
                     [] major = 2 ->
                          IF n > remaining THEN Truncated
                          ELSE Parsed(ByteString(SubSeq(bytes, after, after + n - 1),
                                                 InfoWidth(info)), after + n)
                     [] major = 4 ->
                          IF n > remaining THEN Truncated
                          ELSE LET r == array_items(bytes, after, n, <<>>)
                               IN  IF r.kind = "Some"
                                   THEN Parsed(Array(r.item, InfoWidth(info)), r.next)
                                   ELSE r
                     [] major = 7 /\ info < 24 -> Parsed(Simple(info), after)

array_items(bytes, pos, count, acc) ==
    IF count = 0 THEN Parsed(acc, pos)
    ELSE LET r == data_item(bytes, pos)
         IN  IF r.kind = "Some"
             THEN array_items(bytes, r.next, count - 1, Append(acc, r.item))
             ELSE r

\* a parser's result: Ok(Some(item, len)), Ok(None) or Err
SomeItem(v, len) == [kind |-> "Some", item |-> v, len |-> len]

None == [kind |-> "None"]

Err(e) == [kind |-> "Err", error |-> e]

parse_bytes_partial(bytes) ==
    LET r == data_item(bytes, 1)
    IN  CASE r.kind = "Some" -> SomeItem(r.item, r.next - 1)
          [] r.kind = "Truncated" -> None
          [] r.kind = "Malformed" -> Err("Malformed")

parse_bytes(bytes) ==
    LET r == data_item(bytes, 1)
    IN  CASE r.kind = "Some" /\ r.next = Len(bytes) + 1 -> SomeItem(r.item, Len(bytes))
          [] r.kind = "Some" /\ r.next # Len(bytes) + 1 -> Err("TrailingInput")
          [] r.kind = "Truncated" -> Err("Truncated")
          [] r.kind = "Malformed" -> Err("Malformed")

\* ASCII
Blank == {9, 10, 13, 32}

HexDigit(c) ==
    CASE c \in 48..57 -> c - 48
      [] c \in 97..102 -> c - 87
      [] c \in 65..70 -> c - 55
      [] OTHER -> -1

\* the text without its comments (# to the end of the line) and blanks
RECURSIVE Strip(_, _)
Strip(text, comment) ==
    IF text = <<>> THEN <<>>
    ELSE LET c == Head(text)
         IN  IF comment THEN Strip(Tail(text), c # 10)
             ELSE IF c = 35 THEN Strip(Tail(text), TRUE)
             ELSE IF c \in Blank THEN Strip(Tail(text), FALSE)
             ELSE <<c>> \o Strip(Tail(text), FALSE)

parse_hex(text) ==
    LET digits == Strip(text, FALSE)
    IN  IF \E i \in 1..Len(digits) : HexDigit(digits[i]) < 0 THEN Err("SyntaxError")
        ELSE IF Len(digits) % 2 = 1 THEN Err("SyntaxError")
        ELSE parse_bytes([i \in 1..(Len(digits) \div 2) |->
                            HexDigit(digits[2 * i - 1]) * 16 + HexDigit(digits[2 * i])])

\* the text without the blanks before its first and after its last token
RECURSIVE TrimStart(_)
TrimStart(text) ==
    IF text # <<>> /\ Head(text) \in Blank THEN TrimStart(Tail(text)) ELSE text

RECURSIVE TrimEnd(_)
TrimEnd(text) ==
    IF text # <<>> /\ text[Len(text)] \in Blank
    THEN TrimEnd(SubSeq(text, 1, Len(text) - 1)) ELSE text

\* the u64 of decimal digits; carry is not 0 when it is out of range
RECURSIVE Decimal(_, _)
Decimal(digits, acc) ==
    IF digits = <<>> \/ acc.carry # 0 THEN acc
    ELSE Decimal(Tail(digits), LimbsMulAdd(acc.limbs, 10, Head(digits) - 48))

\* an integer: decimal digits, of bitwidth Unknown
parse_diag(text) ==
    LET token == TrimEnd(TrimStart(text))
        number == Decimal(token, [limbs |-> U64(0), carry |-> 0])
    IN  IF token = <<>> \/ \E i \in 1..Len(token) : token[i] \notin 48..57
        THEN Err("SyntaxError")
        ELSE IF number.carry # 0 THEN Err("SyntaxError")
        ELSE SomeItem(Integer(number.limbs, "Unknown"), Len(text))

\* 4.2: the narrowest width that holds the argument
Narrowest(arg) ==
    IF LimbsLt(arg, U64(24)) THEN "Zero"
    ELSE IF LimbsLt(arg, U64(256)) THEN "Eight"
    ELSE IF arg[1] = 0 /\ arg[2] = 0 /\ arg[3] = 0 THEN "Sixteen"
    ELSE IF arg[1] = 0 /\ arg[2] = 0 THEN "ThirtyTwo"
    ELSE "SixtyFour"

\* the initial byte and the argument, big-endian, in the item's width
Header(major, arg, bitwidth) ==
    LET w == IF bitwidth = "Unknown" THEN Narrowest(arg) ELSE bitwidth
        hi(l) == l \div 256
        lo(l) == l % 256
    IN  CASE w = "Zero" -> <<major * 32 + arg[4]>>
          [] w = "Eight" -> <<major * 32 + 24, lo(arg[4])>>
          [] w = "Sixteen" -> <<major * 32 + 25, hi(arg[4]), lo(arg[4])>>
          [] w = "ThirtyTwo" ->
                <<major * 32 + 26, hi(arg[3]), lo(arg[3]), hi(arg[4]), lo(arg[4])>>
          [] w = "SixtyFour" ->
                <<major * 32 + 27, hi(arg[1]), lo(arg[1]), hi(arg[2]), lo(arg[2]),
                  hi(arg[3]), lo(arg[3]), hi(arg[4]), lo(arg[4])>>

RECURSIVE to_bytes(_)
to_bytes(v) ==
    LET RECURSIVE all(_)
        all(vs) == IF vs = <<>> THEN <<>> ELSE to_bytes(Head(vs)) \o all(Tail(vs))
    IN  CASE v.type = "Integer" -> Header(0, v.value, v.bitwidth)
          [] v.type = "Negative" -> Header(1, v.value, v.bitwidth)
          [] v.type = "ByteString" -> Header(2, U64(Len(v.data)), v.bitwidth) \o v.data
          [] v.type = "Array" -> Header(4, U64(Len(v.items)), v.bitwidth) \o all(v.items)
          [] v.type = "Simple" -> <<7 * 32 + v.value>>

(***************************************************************************)
(* src/cli/src/main.rs: one run of main.  Standard input is a sequence of  *)
(* bytes and the number of them read so far; a read or a write may fail.   *)
(* --color is never: the plain sink.                                       *)
(***************************************************************************)
From == {"auto", "hex", "bytes", "diag"}

To == {"annotated", "hex", "bytes", "diag", "compact"}

\* what main returned
Running == [kind |-> "Running"]

Success == [kind |-> "Ok"]

Panicked == [kind |-> "Panic"]

\* one write to standard output: text, or raw bytes
Text(s) == [text |-> s]

Raw(bytes) == [raw |-> bytes]

\* the bytes of standard input not read yet
Unread == SubSeq(stdin.bytes, stdin.pos + 1, Len(stdin.bytes))

\* String::from_utf8, for inputs whose bytes from 0x80 up are bytes that no
\* UTF-8 text holds (0xff)
from_utf8(bytes) == \A i \in 1..Len(bytes) : bytes[i] < 128

\* output_item: the writes it makes, or a panic
output_item(v, to, checks) ==
    LET wrote(s) == [ok |-> s.ok, writes |-> IF s.ok THEN <<Text(s.s), Text("\n")>> ELSE <<>>]
    IN  CASE to = "annotated" ->
                LET s == to_hex(v, checks)
                IN  [ok |-> s.ok, writes |-> IF s.ok THEN <<Text(s.s)>> ELSE <<>>]
          [] to = "hex" -> [ok |-> TRUE, writes |-> <<Text(hex_encode(to_bytes(v)))>>]
          [] to = "bytes" -> [ok |-> TRUE, writes |-> <<Raw(to_bytes(v))>>]
          [] to = "diag" -> wrote(pretty_diag(v, checks))
          [] to = "compact" -> wrote(compact_diag(v, checks))

\* the writes are made in order until one fails: n of them succeed
Write(writes, n) ==
    /\ stdout' = stdout \o SubSeq(writes, 1, n)
    /\ n \in 0..Len(writes)

Return(r) ==
    /\ result' = r
    /\ pc' = "done"

\* lines 146-150: input.read_to_end(&mut data)?
ReadToEnd ==
    /\ pc = "read_to_end"
    /\ \/ /\ buffer' = Unread
          /\ stdin' = [stdin EXCEPT !.pos = Len(stdin.bytes)]
          /\ result' = result
          /\ pc' = CASE args.from \in {"auto", "bytes"} -> "parse_bytes"
                     [] args.from = "hex" -> "parse_hex"
                     [] args.from = "diag" -> "parse_diag"
       \/ /\ Return(Err("io"))
          /\ UNCHANGED <<stdin, buffer>>
    /\ UNCHANGED <<args, parsed, stdout>>
    /\ UNCHANGED encoderVars

\* lines 153-156 and 167: parse_bytes; under auto a failure goes on to the
\* text parsers when the input is UTF-8
ParseBytes ==
    /\ pc = "parse_bytes"
    /\ LET r == parse_bytes(buffer)
       IN  IF r.kind = "Some"
           THEN parsed' = <<r.item>> /\ pc' = "output" /\ result' = result
           ELSE /\ parsed' = parsed
                /\ IF args.from = "bytes" THEN Return(r)
                   ELSE IF from_utf8(buffer) THEN pc' = "parse_hex" /\ result' = result
                   ELSE Return(Err("Failed all parsers"))
    /\ UNCHANGED <<args, stdin, buffer, stdout>>
    /\ UNCHANGED encoderVars

\* parse_hex as the last text parser: under auto its failure fails the run
ParseHex_LastParser ==
    /\ pc = "parse_hex"
    /\ IF ~from_utf8(buffer) THEN Return(Err("FromUtf8Error")) /\ parsed' = parsed
       ELSE LET r == parse_hex(buffer)
            IN  IF r.kind = "Some"
                THEN parsed' = <<r.item>> /\ pc' = "output" /\ result' = result
                ELSE /\ parsed' = parsed
                     /\ IF args.from = "hex" THEN Return(r)
                        ELSE Return(Err("Failed all parsers"))
    /\ UNCHANGED <<args, stdin, buffer, stdout>>
    /\ UNCHANGED encoderVars

\* lines 157-159 and 163-166: parse_hex; under auto a failure goes on to
\* parse_diag
ParseHex ==
    /\ pc = "parse_hex"
    /\ IF ~from_utf8(buffer) THEN Return(Err("FromUtf8Error")) /\ parsed' = parsed
       ELSE LET r == parse_hex(buffer)
            IN  IF r.kind = "Some"
                THEN parsed' = <<r.item>> /\ pc' = "output" /\ result' = result
                ELSE /\ parsed' = parsed
                     /\ IF args.from = "hex" THEN Return(r)
                        ELSE pc' = "parse_diag" /\ result' = result
    /\ UNCHANGED <<args, stdin, buffer, stdout>>
    /\ UNCHANGED encoderVars

\* lines 159-162 and 168-171: parse_diag, the last parser
ParseDiag ==
    /\ pc = "parse_diag"
    /\ IF ~from_utf8(buffer) THEN Return(Err("FromUtf8Error")) /\ parsed' = parsed
       ELSE LET r == parse_diag(buffer)
            IN  IF r.kind = "Some"
                THEN parsed' = <<r.item>> /\ pc' = "output" /\ result' = result
                ELSE /\ parsed' = parsed
                     /\ IF args.from = "diag" THEN Return(r)
                        ELSE Return(Err("Failed all parsers"))
    /\ UNCHANGED <<args, stdin, buffer, stdout>>
    /\ UNCHANGED encoderVars

\* lines 174-177: output_item(value, ...)?; Ok(())
OutputItem ==
    /\ pc = "output"
    /\ \E checks \in BOOLEAN :
         \E o \in {output_item(parsed[1], args.to, checks)} :
             IF ~o.ok THEN Return(Panicked) /\ stdout' = stdout
             ELSE \E n \in 0..Len(o.writes) :
                    /\ Write(o.writes, n)
                    /\ Return(IF n = Len(o.writes) THEN Success ELSE Err("io"))
    /\ UNCHANGED <<args, stdin, buffer, parsed>>
    /\ UNCHANGED encoderVars

\* read_to_vec reads into a buffer of this many bytes
ReadSize == 10 * 1024

\* read_to_vec and the end of main without the test of data.is_empty()
ReadToVec_NoLeftoverTest ==
    /\ pc = "read"
    /\ \/ \E len \in 0..Min(Len(Unread), ReadSize) :
            /\ len = 0 <=> Unread = <<>>
            /\ buffer' = buffer \o SubSeq(Unread, 1, len)
            /\ stdin' = [stdin EXCEPT !.pos = @ + len]
            /\ IF len # 0 THEN pc' = "parse" /\ result' = result
               ELSE Return(Success)
       \/ /\ Return(Err("io"))
          /\ UNCHANGED <<stdin, buffer>>
    /\ UNCHANGED <<args, parsed, stdout>>
    /\ UNCHANGED encoderVars

\* read_to_vec answering Ok(true) whatever the read returned
ReadToVec_NeverEnds ==
    /\ pc = "read"
    /\ \/ \E len \in 0..Min(Len(Unread), ReadSize) :
            /\ len = 0 <=> Unread = <<>>
            /\ buffer' = buffer \o SubSeq(Unread, 1, len)
            /\ stdin' = [stdin EXCEPT !.pos = @ + len]
            /\ pc' = "parse" /\ result' = result
       \/ /\ Return(Err("io"))
          /\ UNCHANGED <<stdin, buffer>>
    /\ UNCHANGED <<args, parsed, stdout>>
    /\ UNCHANGED encoderVars

\* lines 132 and 55-63: input.read_to_vec(&mut data)?, a read returning len
\* bytes (0 at the end of the input only); lines 142-144 when it returned 0
ReadToVec ==
    /\ pc = "read"
    /\ \/ \E len \in 0..Min(Len(Unread), ReadSize) :
            /\ len = 0 <=> Unread = <<>>
            /\ buffer' = buffer \o SubSeq(Unread, 1, len)
            /\ stdin' = [stdin EXCEPT !.pos = @ + len]
            /\ IF len # 0 THEN pc' = "parse" /\ result' = result
               ELSE IF buffer # <<>>
               THEN Return(Err(to_string(U64(Len(buffer)))
                               \o " bytes remaining after last item"))
               ELSE Return(Success)
       \/ /\ Return(Err("io"))
          /\ UNCHANGED <<stdin, buffer>>
    /\ UNCHANGED <<args, parsed, stdout>>
    /\ UNCHANGED encoderVars

\* the turn of the loop emptying the buffer instead of draining len bytes
ParsePartial_ClearsBuffer ==
    /\ pc = "parse"
    /\ LET r == parse_bytes_partial(buffer)
       IN  CASE r.kind = "Err" -> Return(r) /\ UNCHANGED <<buffer, parsed, stdout>>
             [] r.kind = "None" ->
                  pc' = "read" /\ result' = result /\ UNCHANGED <<buffer, parsed, stdout>>
             [] r.kind = "Some" ->
                  \E checks \in BOOLEAN :
                  \E o \in {output_item(r.item, args.to, checks)} :
                    LET writes == o.writes \o (IF args.to # "bytes" /\ args.to # "compact"
                                               THEN <<Text("\n")>> ELSE <<>>)
                    IN  IF ~o.ok
                        THEN Return(Panicked) /\ UNCHANGED <<buffer, parsed, stdout>>
                        ELSE \E n \in 0..Len(writes) :
                               /\ Write(writes, n)
                               /\ IF n < Len(writes)
                                  THEN Return(Err("io")) /\ UNCHANGED <<buffer, parsed>>
                                  ELSE IF r.len > Len(buffer)
                                  THEN Return(Panicked) /\ UNCHANGED <<buffer, parsed>>
                                  ELSE /\ buffer' = <<>>
                                       /\ parsed' = Append(parsed, r.item)
                                       /\ pc' = "parse"
                                       /\ result' = result
    /\ UNCHANGED <<args, stdin>>
    /\ UNCHANGED encoderVars

\* lines 133-139: one turn of while let Some((value, len)) =
\* parse_bytes_partial(&data)?
ParsePartial ==
    /\ pc = "parse"
    /\ LET r == parse_bytes_partial(buffer)
       IN  CASE r.kind = "Err" -> Return(r) /\ UNCHANGED <<buffer, parsed, stdout>>
             [] r.kind = "None" ->
                  pc' = "read" /\ result' = result /\ UNCHANGED <<buffer, parsed, stdout>>
             [] r.kind = "Some" ->
                  \E checks \in BOOLEAN :
                  \E o \in {output_item(r.item, args.to, checks)} :
                    LET writes == o.writes \o (IF args.to # "bytes" /\ args.to # "compact"
                                               THEN <<Text("\n")>> ELSE <<>>)
                    IN  IF ~o.ok
                        THEN Return(Panicked) /\ UNCHANGED <<buffer, parsed, stdout>>
                        ELSE \E n \in 0..Len(writes) :
                               /\ Write(writes, n)
                               /\ IF n < Len(writes)
                                  THEN Return(Err("io")) /\ UNCHANGED <<buffer, parsed>>
                                  ELSE IF r.len > Len(buffer)
                                  THEN Return(Panicked) /\ UNCHANGED <<buffer, parsed>>
                                  ELSE /\ buffer' = SubSeq(buffer, r.len + 1, Len(buffer))
                                       /\ parsed' = Append(parsed, r.item)
                                       /\ pc' = "parse"
                                       /\ result' = result
    /\ UNCHANGED <<args, stdin>>
    /\ UNCHANGED encoderVars

(***************************************************************************)
(* The runs of main.                                                       *)
(***************************************************************************)
\* no call of an encoder is modelled next to a run of main
NoEncoder ==
    /\ item = "none"
    /\ op = "none"
    /\ out = Ok("")

\* the byte strings of at most n bytes of an alphabet
Inputs(alphabet, n) == UNION {[1..k -> alphabet] : k \in 0..n}

\* lines 122-129: main starts with nothing read and nothing written
Start(inputs) ==
    /\ stdin \in {[bytes |-> b, pos |-> 0] : b \in inputs}
    /\ buffer = <<>>
    /\ parsed = <<>>
    /\ stdout = <<>>
    /\ pc = IF args.seq THEN "read" ELSE "read_to_end"
    /\ result = Running
    /\ NoEncoder

\* the input of a run without --seq: the characters 0, 8 and blank, and the
\* byte 0xff
TextBytes == {48, 56, 32, 255}

InitMain ==
    /\ args \in [seq : {FALSE}, from : From, to : To]
    /\ Start(Inputs(TextBytes, MaxInput))

NextMain == ReadToEnd \/ ParseBytes \/ ParseHex \/ ParseDiag \/ OutputItem

SpecMain == InitMain /\ [][NextMain]_vars

\* the input of a run with --seq: the initial bytes of an integer of one
\* byte and of two, of a byte string of two bytes, and the break byte
SeqBytes == {0, 24, 66, 255}

InitSeq ==
    /\ args \in [seq : {TRUE}, from : {"auto"}, to : To]
    /\ Start(Inputs(SeqBytes, MaxSeqInput))

NextSeq == ReadToVec \/ ParsePartial

SpecSeq == InitSeq /\ [][NextSeq]_vars

\* main has not returned and its state changes.  Under SpecSeq such a step
\* is one of NextSeq, and NextSeq has a step wherever main has not returned
\* (a read returns or fails; a parse answers Err, None or Some), so that
\* this is <<NextSeq>>_vars with its enabling condition written out; the
\* first disjunct names one state other than the present one.
Proceeds ==
    /\ pc # "done"
    /\ \/ /\ Return(Panicked)
          /\ UNCHANGED <<args, stdin, buffer, parsed, stdout>>
          /\ UNCHANGED encoderVars
       \/ vars' # vars

\* main runs on: it is not suspended for ever before it returned
FairSeq == SpecSeq /\ WF_vars(Proceeds)

(***************************************************************************)
(* Reading an output back: what the properties below are stated with.      *)
(***************************************************************************)
Widen(v) == <<0, 0, 0, 0>> \o v

RECURSIVE ParseAt(_, _, _, _)
ParseAt(s, base, i, acc) ==
    IF i > Len(s) THEN acc
    ELSE ParseAt(s, base, i + 1, LimbsMulAdd(acc, base, DigitVal(Char(s, i))).limbs)

\* the number a digit string denotes, eight limbs wide
ParseNumber(s, base) == ParseAt(s, base, 1, <<0, 0, 0, 0, 0, 0, 0, 0>>)

AllDigits(s, base) == \A i \in 1..Len(s) : IsDigitOf(Char(s, i), base)

\* s is the decimal numeral of n: digits only, no leading zero, value n
IsDecimalOf(s, n) ==
    /\ Len(s) >= 1
    /\ AllDigits(s, 10)
    /\ (Len(s) > 1 => Char(s, 1) # "0")
    /\ ParseNumber(s, 10) = n

\* s is n written with exactly k lowercase hex digits
IsHexOf(s, k, n) ==
    /\ Len(s) = k
    /\ AllDigits(s, 16)
    /\ ParseNumber(s, 16) = n

\* the 1-based positions of the character c in s
Positions(s, c) == {i \in 1..Len(s) : Char(s, i) = c}

\* the pieces of s between occurrences of c
Split(s, c) ==
    LET P == Positions(s, c)
        n == Cardinality(P)
        \* the position of the k-th c; 0 for k = 0, Len(s) + 1 past the last
        at(k) == IF k = 0 THEN 0
                 ELSE IF k > n THEN Len(s) + 1
                 ELSE CHOOSE i \in P : Cardinality({j \in P : j <= i}) = k
    IN  [k \in 1..(n + 1) |-> SubSeq(s, at(k - 1) + 1, at(k) - 1)]

\* the pieces of s between line breaks; the last is "" when s ends with one
SplitLines(s) == Split(s, "\n")

\* the 1-based position of the first c in s, 0 when there is none
FirstIndex(s, c) ==
    IF Contains(s, c)
    THEN CHOOSE i \in 1..Len(s) :
            Char(s, i) = c /\ \A j \in 1..(i - 1) : Char(s, j) # c
    ELSE 0

RECURSIVE HexRunEnd(_, _)
HexRunEnd(line, i) ==
    IF i <= Len(line) /\ IsDigitOf(Char(line, i), 16)
    THEN HexRunEnd(line, i + 1)
    ELSE i - 1

\* the hex digits a payload line carries after its 3-space indentation
PayloadHex(line) == SubSeq(line, 4, HexRunEnd(line, 4))

DecodeHex(h) ==
    [i \in 1..(Len(h) \div 2) |->
        DigitVal(Char(h, 2 * i - 1)) * 16 + DigitVal(Char(h, 2 * i))]

RECURSIVE Concat(_)
Concat(ss) == IF ss = <<>> THEN "" ELSE Head(ss) \o Concat(Tail(ss))

\* the narrowest width that holds the argument
NarrowestWidth(arg) ==
    IF LimbsLt(arg, U64(24)) THEN "Zero"
    ELSE IF LimbsLt(arg, U64(256)) THEN "Eight"
    ELSE IF LimbsLt(arg, <<0, 0, 1, 0>>) THEN "Sixteen"
    ELSE IF LimbsLt(arg, <<0, 1, 0, 0>>) THEN "ThirtyTwo"
    ELSE "SixtyFour"

\* the argument fits the explicit width
Fits(arg, w) ==
    CASE w = "Zero" -> LimbsLt(arg, U64(24))
      [] w = "Eight" -> LimbsLt(arg, U64(256))
      [] w = "Sixteen" -> LimbsLt(arg, <<0, 0, 1, 0>>)
      [] w = "ThirtyTwo" -> LimbsLt(arg, <<0, 1, 0, 0>>)
      [] w = "SixtyFour" -> TRUE
      [] OTHER -> FALSE

\* the additional-information value that announces a width
AdditionalInfo(w) ==
    CASE w = "Eight" -> 24
      [] w = "Sixteen" -> 25
      [] w = "ThirtyTwo" -> 26
      [] w = "SixtyFour" -> 27

\* the number of hex digits of the argument that follows the initial byte
ArgDigits(w) ==
    CASE w = "Zero" -> 0
      [] w = "Eight" -> 2
      [] w = "Sixteen" -> 4
      [] w = "ThirtyTwo" -> 8
      [] w = "SixtyFour" -> 16

\* the width that the initial byte of an emitted header announces
HeaderWidth(s) ==
    LET ai == (DigitVal(Char(s, 1)) * 16 + DigitVal(Char(s, 2))) % 32
    IN  IF ai < 24 THEN "Zero"
        ELSE CHOOSE w \in {"Eight", "Sixteen", "ThirtyTwo", "SixtyFour"} :
                AdditionalInfo(w) = ai

HasArgument(v) == v.type \in {"Integer", "Negative", "ByteString"}

Argument(v) == IF v.type = "ByteString" THEN U64(Len(v.data)) ELSE v.value

MajorType(v) ==
    CASE v.type = "Integer" -> 0
      [] v.type = "Negative" -> 1
      [] v.type = "ByteString" -> 2

HexCalled == op = "to_hex"

(***************************************************************************)
(* C1: when the bitwidth is Unknown the annotated-hex encoder selects the  *)
(* narrowest width that holds the argument (Zero for 0..23, Eight for      *)
(* 24..255, Sixteen for 256..65535, ThirtyTwo up to 2^32-1, SixtyFour      *)
(* above): the header it emits announces that width.                       *)
(***************************************************************************)
C1_UnknownSelectsNarrowest ==
    (HexCalled /\ HasArgument(item) /\ item.bitwidth = "Unknown")
        => (out.ok /\ HeaderWidth(out.s) = NarrowestWidth(Argument(item)))

(***************************************************************************)
(* C2: for an Integer or Negative whose value fits its explicit bitwidth,  *)
(* to_hex returns the initial byte (the value itself, plus 0x20 for        *)
(* Negative, when the width is Zero; otherwise 18/19/1a/1b or 38/39/3a/3b, *)
(* a space and the value in exactly 2/4/8/16 lowercase hex digits), then   *)
(* " # unsigned(value)" or " # negative(value)" with value in decimal.     *)
(***************************************************************************)
C2_Case ==
    /\ HexCalled
    /\ item.type \in {"Integer", "Negative"}
    /\ Fits(item.value, item.bitwidth)

C2_HeaderLen == 2 + (IF item.bitwidth = "Zero" THEN 0 ELSE 1 + ArgDigits(item.bitwidth))

C2_HeaderExact ==
    LET s  == out.s
        mt == MajorType(item)
        w  == item.bitwidth
    IN  IF w = "Zero"
        THEN IsHexOf(SubSeq(s, 1, 2), 2, Widen(LimbsAdd(item.value, 32 * mt).limbs))
        ELSE /\ IsHexOf(SubSeq(s, 1, 2), 2, Widen(U64(32 * mt + AdditionalInfo(w))))
             /\ Char(s, 3) = " "
             /\ IsHexOf(SubSeq(s, 4, 3 + ArgDigits(w)), ArgDigits(w), Widen(item.value))

C2_CommentExact ==
    LET rest == SubSeq(out.s, C2_HeaderLen + 1, Len(out.s))
        open == IF item.type = "Integer" THEN " # unsigned(" ELSE " # negative("
    IN  /\ StartsWith(rest, open)
        /\ EndsWith(rest, ")")
        /\ IsDecimalOf(SubSeq(rest, Len(open) + 1, Len(rest) - 1), Widen(item.value))

C2_IntegerHexExact ==
    C2_Case => (out.ok /\ C2_HeaderExact /\ C2_CommentExact)

C2_Witness ==
    /\ C2_Case
    /\ item.type = "Negative"
    /\ item.bitwidth = "ThirtyTwo"
    /\ ~LimbsLt(item.value, U64(LimbBase))
    /\ out.ok

(***************************************************************************)
(* C4: the annotated hex of a definite byte string of L bytes is a header  *)
(* line ending in " # bytes(L)", then ceil(L/16) payload lines (one line   *)
(* with the comment "" when L = 0); a payload line starts with 3 spaces    *)
(* and carries at most 16 bytes in lowercase hex, every line but the last  *)
(* exactly 16, and the payload hex concatenated in order is the data.      *)
(***************************************************************************)
C4_Case ==
    /\ HexCalled
    /\ item.type = "ByteString"
    /\ item.bitwidth # "None"

C4_Lines == SplitLines(out.s)

C4_PayloadCount ==
    IF item.data = <<>> THEN 1 ELSE (Len(item.data) + 15) \div 16

C4_Payload == LET lines == C4_Lines IN SubSeq(lines, 2, Len(lines) - 1)

C4_Shape ==
    LET lines == C4_Lines
        pay   == C4_Payload
        L     == Len(item.data)
    IN  /\ Len(lines) = 1 + C4_PayloadCount + 1
        /\ lines[Len(lines)] = ""
        /\ \E d \in {SubSeq(lines[1], i, Len(lines[1]) - 1) : i \in 1..Len(lines[1])} :
              /\ EndsWith(lines[1], " # bytes(" \o d \o ")")
              /\ IsDecimalOf(d, Widen(U64(L)))
        /\ \A k \in 1..Len(pay) :
              /\ StartsWith(pay[k], "   ")
              /\ Len(PayloadHex(pay[k])) <= 32
              /\ Len(PayloadHex(pay[k])) % 2 = 0
              /\ Char(pay[k], 4 + Len(PayloadHex(pay[k]))) = " "
              /\ (k < Len(pay) => Len(PayloadHex(pay[k])) = 32)
        /\ (L = 0 => EndsWith(pay[1], " # \"\""))
        /\ DecodeHex(Concat([k \in 1..Len(pay) |-> PayloadHex(pay[k])])) = item.data

C4_ByteStringLines == C4_Case => (out.ok /\ C4_Shape)

C4_Witness ==
    /\ C4_Case
    /\ out.ok
    /\ Len(item.data) > 32
    /\ Len(item.data) % 16 # 0
    /\ Len(C4_Payload) = 3

(***************************************************************************)
(* C5: in the annotated hex of a definite byte string whose length fits    *)
(* its bitwidth, the first "#" of every line is preceded by the same       *)
(* number of characters, 4 + max(min(2L, 32), digits of the length field). *)
(***************************************************************************)
C5_Width ==
    IF item.bitwidth = "Unknown"
    THEN NarrowestWidth(U64(Len(item.data)))
    ELSE item.bitwidth

C5_Case ==
    /\ C4_Case
    /\ Fits(U64(Len(item.data)), C5_Width)

C5_Column == 4 + Max(Min(2 * Len(item.data), 32), ArgDigits(C5_Width))

C5_HashColumnAligned ==
    C5_Case =>
        /\ out.ok
        /\ LET lines == C4_Lines
           IN  \A k \in 1..(Len(lines) - 1) :
                  FirstIndex(lines[k], "#") = C5_Column + 1

C5_Witness ==
    /\ C5_Case
    /\ out.ok
    /\ item.bitwidth = "SixtyFour"
    /\ Len(item.data) \in 1..7
    /\ Len(C4_Lines) = 3

(***************************************************************************)
(* C6: simple_to_hex emits the header (one byte 0xe0|N when N < 24,        *)
(* otherwise f8 and N in 2 hex digits), " # ", the semantic name and       *)
(* simple(N); the name is false/true/null/undefined for 20..23, reserved   *)
(* exactly for 24..31 and unassigned for every other N.                    *)
(***************************************************************************)
C6_Name(n) ==
    CASE n = 20 -> "false"
      [] n = 21 -> "true"
      [] n = 22 -> "null"
      [] n = 23 -> "undefined"
      [] n \in 24..31 -> "reserved"
      [] OTHER -> "unassigned"

C6_Hex2(n) == DigitChar(n \div 16) \o DigitChar(n % 16)

C6_Header(n) == IF n < 24 THEN C6_Hex2(224 + n) ELSE "f8 " \o C6_Hex2(n)

C6_SimpleNames ==
    (HexCalled /\ item.type = "Simple") =>
        /\ out.ok
        /\ \E d \in {SubSeq(out.s, i, Len(out.s) - 1) : i \in 1..Len(out.s)} :
              /\ IsDecimalOf(d, Widen(U64(item.value)))
              /\ out.s = C6_Header(item.value) \o " # " \o C6_Name(item.value)
                            \o ", simple(" \o d \o ")"

(***************************************************************************)
(* The diagnostic encoder: what the properties below are stated with.      *)
(***************************************************************************)
DiagCalled == op \in {"compact_diag", "pretty_diag"}

Layout == IF op = "pretty_diag" THEN "Pretty" ELSE "Compact"

IsContainer(v) ==
    v.type \in {"Array", "Map", "IndefiniteByteString", "IndefiniteTextString"}

ElementsOf(v) ==
    CASE v.type = "Array" -> v.items
      [] v.type = "Map" -> v.entries
      [] v.type = "IndefiniteByteString" -> v.bytestrings
      [] v.type = "IndefiniteTextString" -> v.textstrings

Definite(v) == v.type \in {"Array", "Map"} /\ v.bitwidth # "None"

Begin(v) == CASE v.type = "Array" -> "[" [] v.type = "Map" -> "{" [] OTHER -> "("

End(v) == CASE v.type = "Array" -> "]" [] v.type = "Map" -> "}" [] OTHER -> ")"

\* the verdict of is_trivial when it returns
Trivial(v) == is_trivial(v, FALSE).b

(***************************************************************************)
(* C3: in both layouts Integer{value, w} renders as the decimal of value   *)
(* and Negative{value, w} as the decimal of -1 - value, exact for every    *)
(* u64 value (0 gives -1, 2^64-1 gives -18446744073709551616), followed by *)
(* _0/_1/_2/_3 exactly when w is Eight/Sixteen/ThirtyTwo/SixtyFour.        *)
(***************************************************************************)
C3_Case == DiagCalled /\ item.type \in {"Integer", "Negative"}

C3_Suffix ==
    CASE item.bitwidth = "Eight" -> "_0"
      [] item.bitwidth = "Sixteen" -> "_1"
      [] item.bitwidth = "ThirtyTwo" -> "_2"
      [] item.bitwidth = "SixtyFour" -> "_3"
      [] OTHER -> ""

C3_Number == SubSeq(out.s, 1, Len(out.s) - Len(C3_Suffix))

C3_IntegerDecimal ==
    C3_Case =>
        /\ out.ok
        /\ EndsWith(out.s, C3_Suffix)
        /\ IF item.type = "Integer"
           THEN IsDecimalOf(C3_Number, Widen(item.value))
           ELSE /\ StartsWith(C3_Number, "-")
                /\ IsDecimalOf(SubSeq(C3_Number, 2, Len(C3_Number)),
                               LimbsAdd(Widen(item.value), 1).limbs)
                /\ (item.value = U64(0) => C3_Number = "-1")
                /\ (item.value = U64Max => C3_Number = "-18446744073709551616")

C3_Witness ==
    /\ op = "pretty_diag"
    /\ item = Negative(U64Max, "SixtyFour")
    /\ out = Ok("-18446744073709551616_3")

(***************************************************************************)
(* C7: the display encoding of a byte string is that of the nearest        *)
(* enclosing Tag 21/22/23 (Base64Url/Base64/Base16) and Base16 when there  *)
(* is none; a tag changes the rendering inside its own value only, never   *)
(* that of a sibling of the tagged item.                                   *)
(***************************************************************************)
RECURSIVE C7_Expected(_, _), C7_ExpectedAll(_, _, _)

\* the byte strings of v in the order they are written, each with the
\* encoding the nearest enclosing tag gives it; enc is that of v's surroundings
C7_Expected(v, enc) ==
    CASE v.type = "ByteString" -> << <<enc, v.data>> >>
      [] v.type = "Array" -> C7_ExpectedAll(v.items, FALSE, enc)
      [] v.type = "Map" -> C7_ExpectedAll(v.entries, TRUE, enc)
      [] v.type = "IndefiniteByteString" -> C7_ExpectedAll(v.bytestrings, FALSE, enc)
      [] v.type = "Tag" ->
            C7_Expected(v.value, CASE v.tag = U64(21) -> "Base64Url"
                                   [] v.tag = U64(22) -> "Base64"
                                   [] v.tag = U64(23) -> "Base16"
                                   [] OTHER -> enc)
      [] OTHER -> <<>>

C7_ExpectedAll(elems, entries, enc) ==
    IF elems = <<>> THEN <<>>
    ELSE (IF entries
          THEN C7_Expected(Head(elems)[1], enc) \o C7_Expected(Head(elems)[2], enc)
          ELSE C7_Expected(Head(elems), enc))
         \o C7_ExpectedAll(Tail(elems), entries, enc)

\* a byte string as it is written in an encoding: its prefix and its body
C7_Written(e) ==
    CASE e[1] = "Base16" -> <<"h", hex_encode(e[2])>>
      [] e[1] = "Base64" -> <<"b64", Base64Display(e[2], STANDARD)>>
      [] e[1] = "Base64Url" -> <<"b64", Base64Display(e[2], URL_SAFE)>>

\* the byte-string literals of an output, in order: no modelled text string
\* holds an apostrophe, so the apostrophes of an output delimit them
C7_Literals(s) ==
    LET parts == Split(s, "'")
    IN  [k \in 1..((Len(parts) - 1) \div 2) |->
            <<IF EndsWith(parts[2 * k - 1], "b64") THEN "b64"
              ELSE IF EndsWith(parts[2 * k - 1], "h") THEN "h" ELSE "?",
              parts[2 * k]>>]

C7_EncodingScope ==
    (DiagCalled /\ out.ok) =>
        LET expected == C7_Expected(item, "Base16")
        IN  C7_Literals(out.s) = [k \in 1..Len(expected) |-> C7_Written(expected[k])]

C7_Witness ==
    /\ op = "compact_diag"
    /\ item = Tag(U64(21), "Unknown",
                  Array(<<Tag(U64(23), "Unknown", BS), BS>>, "Unknown"))
    /\ out.ok
    /\ C7_Literals(out.s) = << <<"h", "fbff">>, <<"b64", "-_8">> >>

(***************************************************************************)
(* C8: a container that is_trivial accepts is printed by pretty_diag in    *)
(* fewer than 60 characters.                                               *)
(***************************************************************************)
C8_TrivialBelow60 ==
    (op = "pretty_diag" /\ out.ok /\ IsContainer(item) /\ Trivial(item))
        => Len(out.s) < 60

(***************************************************************************)
(* C9: in the compact layout, and for a trivial container in the pretty    *)
(* layout, consecutive elements are separated by exactly ", " and no comma *)
(* follows the last element.                                               *)
(***************************************************************************)
C9_Case ==
    /\ DiagCalled
    /\ out.ok
    /\ IsContainer(item)
    /\ (op = "compact_diag" \/ Trivial(item))

C9_Open ==
    Begin(item) \o (IF Definite(item) THEN ""
                    ELSE IF op = "pretty_diag" THEN "_ " ELSE "_")

RECURSIVE C9_Join(_, _)
C9_Join(strs, sep) ==
    IF strs = <<>> THEN ""
    ELSE IF Len(strs) = 1 THEN strs[1]
    ELSE strs[1] \o sep \o C9_Join(Tail(strs), sep)

\* each element as it is written on its own
C9_Elements ==
    [k \in 1..Len(ElementsOf(item)) |->
        fmt_Element(Contextual_new(Layout), item.type = "Map",
                    ElementsOf(item)[k], FALSE).s]

C9_SeparatedBy(sep) == out.s = C9_Open \o C9_Join(C9_Elements, sep) \o End(item)

C9_CommaSpace == C9_Case => C9_SeparatedBy(", ")

(***************************************************************************)
(* C9 as amended: a trivial container in the pretty layout separates its   *)
(* elements by exactly ", ", a container in the compact layout by exactly  *)
(* "," with no space; in both no comma follows the last element.           *)
(***************************************************************************)
C9_Separators ==
    C9_Case => C9_SeparatedBy(IF op = "compact_diag" THEN "," ELSE ", ")

C9_Witness ==
    /\ C9_Case
    /\ op = "compact_diag"
    /\ item = Array(<<BS, Simple(20)>>, "Unknown")
    /\ out.s = "[h'fbff',false]"

(***************************************************************************)
(* C10: the output of compact_diag contains no line break, whatever the    *)
(* item and the content of its text strings.                               *)
(***************************************************************************)
C10_CompactSingleLine ==
    (op = "compact_diag" /\ out.ok) => ~Contains(out.s, "\n")

(***************************************************************************)
(* A run of main: what the properties below are stated with.               *)
(***************************************************************************)
\* the whole input of the run
Input == stdin.bytes

Succeeds(r) == r.kind = "Some"

(***************************************************************************)
(* C11: with --from auto and no --seq the parsers are tried in the order   *)
(* bytes, hex, diagnostic and the first that succeeds gives the item: the  *)
(* item of parse_bytes is used whenever it succeeds; parse_hex and         *)
(* parse_diag are reached only on UTF-8 input on which parse_bytes failed, *)
(* parse_diag only after parse_hex failed too; and the run fails with      *)
(* "Failed all parsers" exactly when parse_bytes fails and the input is    *)
(* not UTF-8 or both text parsers fail.                                    *)
(***************************************************************************)
C11_Case == ~args.seq /\ args.from = "auto"

\* the first parser, in the order bytes, hex, diagnostic, that succeeds
C11_First ==
    IF Succeeds(parse_bytes(Input)) THEN parse_bytes(Input)
    ELSE IF ~from_utf8(Input) THEN None
    ELSE IF Succeeds(parse_hex(Input)) THEN parse_hex(Input)
    ELSE IF Succeeds(parse_diag(Input)) THEN parse_diag(Input)
    ELSE None

C11_AllFail ==
    /\ ~Succeeds(parse_bytes(Input))
    /\ \/ ~from_utf8(Input)
       \/ ~Succeeds(parse_hex(Input)) /\ ~Succeeds(parse_diag(Input))

C11_Result ==
    C11_Case =>
        /\ parsed # <<>> => Succeeds(C11_First) /\ parsed = <<C11_First.item>>
        /\ pc = "output" => parsed # <<>>
        /\ pc \in {"parse_hex", "parse_diag"} =>
                from_utf8(Input) /\ ~Succeeds(parse_bytes(Input))
        /\ pc = "parse_diag" => ~Succeeds(parse_hex(Input))
        /\ pc = "done" /\ C11_AllFail => parsed = <<>> /\ stdout = <<>>
        /\ pc = "done" =>
                (result = Err("Failed all parsers")
                    <=> C11_AllFail /\ buffer = Input /\ result # Err("io"))

\* the order of the attempts: bytes, then hex, then diagnostic
C11_Order ==
    C11_Case =>
        /\ pc' = "parse_bytes" => pc \in {"read_to_end", "parse_bytes"}
        /\ pc' = "parse_hex" => pc \in {"parse_bytes", "parse_hex"}
        /\ pc' = "parse_diag" => pc \in {"parse_hex", "parse_diag"}

C11_AutoFirstWins == [](C11_Result) /\ [][C11_Order]_vars

\* the characters 80 parse as bytes, as hex and as diagnostic text, to
\* three different items; the item of parse_bytes was written
C11_Witness ==
    /\ C11_Case
    /\ pc = "done"
    /\ result = Success
    /\ Succeeds(parse_hex(Input))
    /\ Succeeds(parse_diag(Input))
    /\ parse_hex(Input).item # parse_bytes(Input).item
    /\ parse_diag(Input).item # parse_bytes(Input).item
    /\ parsed = <<parse_bytes(Input).item>>
    /\ stdout = <<Text("-49_0"), Text("\n")>>

(***************************************************************************)
(* C12: with --seq main returns success only if the input reached its end  *)
(* with an empty buffer; when the end is reached with bytes left in the    *)
(* buffer (which parse_bytes_partial does not accept as a complete item)   *)
(* main returns the error that reports their number; an error of           *)
(* parse_bytes_partial, of a read or of a write is returned at the step    *)
(* where it happens; and what was written before stays written.            *)
(***************************************************************************)
C12_Case == args.seq

C12_Remaining(n) == Err(to_string(U64(n)) \o " bytes remaining after last item")

IsPrefix(a, b) == Len(a) <= Len(b) /\ a = SubSeq(b, 1, Len(a))

\* the writes that emitting one item takes under --to
C12_Writes == IF args.to \in {"hex", "bytes", "compact"} THEN 1 ELSE 2

C12_Returned ==
    C12_Case /\ pc = "done" =>
        /\ result.kind \in {"Ok", "Err", "Panic"}
        /\ result = Success => Unread = <<>> /\ buffer = <<>>
        /\ Unread = <<>> /\ buffer # <<>> /\ result.kind = "Err"
                /\ parse_bytes_partial(buffer).kind = "None"
                /\ Len(stdout) = C12_Writes * Len(parsed)
            => result \in {C12_Remaining(Len(buffer)), Err("io")}
        /\ result.kind = "Err" /\ result \notin {Err("io"), Err("Malformed")}
            => /\ result = C12_Remaining(Len(buffer))
               /\ Unread = <<>> /\ buffer # <<>>
               /\ parse_bytes_partial(buffer).kind = "None"

C12_Step ==
    C12_Case =>
        \* main has returned: nothing happens any more
        /\ pc = "done" => UNCHANGED vars
        /\ result' # result => pc = "read" \/ pc = "parse"
        \* an error of the parser is returned at once
        /\ pc = "parse" /\ parse_bytes_partial(buffer).kind = "Err"
            => pc' = "done" /\ result' = parse_bytes_partial(buffer)
        \* a write that failed is returned; the item stays in the buffer
        /\ pc = "parse" /\ parse_bytes_partial(buffer).kind = "Some"
                /\ Len(stdout') < Len(stdout) + C12_Writes
            => pc' = "done" /\ result' \in {Err("io"), Panicked} /\ buffer' = buffer
        \* the end of the input: success, the bytes that remain, or a failed read
        /\ pc = "read" /\ Unread = <<>>
            => /\ pc' = "done"
               /\ result' \in {IF buffer = <<>> THEN Success
                                ELSE C12_Remaining(Len(buffer)), Err("io")}
        \* what was written stays written
        /\ IsPrefix(stdout, stdout')
        /\ IsPrefix(parsed, parsed')

C12_SeqResult == [](C12_Returned) /\ [][C12_Step]_vars

\* an item was written, then the input ended inside the next item
C12_Witness ==
    /\ C12_Case
    /\ pc = "done"
    /\ Input = <<0, 24>>
    /\ args.to = "annotated"
    /\ stdout = <<Text("00 # unsigned(0)"), Text("\n")>>
    /\ buffer = <<24>>
    /\ result = C12_Remaining(1)
    /\ result.error = "1 bytes remaining after last item"

(***************************************************************************)
(* C13: every annotated-hex rendering that to_hex returns (of an Integer,  *)
(* a Negative, a definite ByteString or a Simple) ends with a line break.  *)
(***************************************************************************)
C13_Case ==
    /\ HexCalled
    /\ out.ok
    /\ item.type \in {"Integer", "Negative", "ByteString", "Simple"}

C13_TrailingNewline == C13_Case => EndsWith(out.s, "\n")

(***************************************************************************)
(* C13, amended: the rendering of a definite ByteString ends with a line   *)
(* break (each of its lines does); the rendering of an Integer, a Negative *)
(* or a Simple is one line with no line break in it.                       *)
(***************************************************************************)
C13_NewlineOnlyByteString ==
    C13_Case =>
        IF item.type = "ByteString"
        THEN /\ EndsWith(out.s, "\n")
             /\ Cardinality(Positions(out.s, "\n")) >= 2
        ELSE ~Contains(out.s, "\n")

\* the rendering of 24 in eight bits, as tests/integer.rs expects it
C13_Witness ==
    /\ C13_Case
    /\ item = Integer(U64(24), "Eight")
    /\ out = Ok("18 18 # unsigned(24)")

(***************************************************************************)
(* C14: in the pretty layout a non-trivial container at the enclosing      *)
(* indentation i is its opening bracket (and _ when indefinite), then for  *)
(* each element, the last included, a line break, i + 4 spaces, the        *)
(* element and a comma, then a line break, i spaces and the closing        *)
(* bracket.  Its elements are rendered at the indentation i + 4, those of  *)
(* a trivial container at i, and a tag or a map entry hands its            *)
(* indentation on unchanged: the elements of a non-trivial container stand *)
(* behind 4 spaces for each non-trivial container around them.             *)
(***************************************************************************)
C14_Case == op = "pretty_diag" /\ out.ok

Spaces(n) == [k \in 1..n |-> " "]

C14_At(i, encoding) == [layout |-> "Pretty", encoding |-> encoding, indent |-> i]

\* the encoding below a tag, which the indentation does not depend on
C14_Below(tag, encoding) == TaggedContext(C14_At(0, encoding), tag).encoding

\* the lines of the elements, each at i + 4 and each behind a comma
C14_Lines(v, i, encoding) ==
    [k \in 1..Len(ElementsOf(v)) |->
        "\n" \o Concat(Spaces(i + 4))
        \o fmt_Element(C14_At(i + 4, encoding), v.type = "Map", ElementsOf(v)[k], FALSE).s
        \o ","]

C14_Layout(v, i, encoding) ==
    Begin(v) \o (IF Definite(v) THEN "" ELSE "_")
    \o Concat(C14_Lines(v, i, encoding))
    \o "\n" \o Concat(Spaces(i)) \o End(v)

\* v, rendered at the indentation i, and every container in it are laid out
\* as claimed
RECURSIVE C14_Laid(_, _, _)
C14_Laid(v, i, encoding) ==
    CASE v.type = "Tag" -> C14_Laid(v.value, i, C14_Below(v.tag, encoding))
      [] IsContainer(v) ->
            LET inner == IF Trivial(v) THEN i ELSE i + 4
                parts(e) == IF v.type = "Map" THEN {e[1], e[2]} ELSE {e}
            IN  /\ ~Trivial(v) =>
                        fmt_DataItem(C14_At(i, encoding), v, FALSE).s
                            = C14_Layout(v, i, encoding)
                /\ \A k \in 1..Len(ElementsOf(v)) :
                        \A e \in parts(ElementsOf(v)[k]) : C14_Laid(e, inner, encoding)
      [] OTHER -> TRUE

C14_PrettyIndentation ==
    C14_Case =>
        /\ out.s = fmt_DataItem(C14_At(0, "Base16"), item, FALSE).s
        /\ C14_Laid(item, 0, "Base16")

\* a non-trivial map whose first value is a tag around a non-trivial array:
\* the elements of the array stand behind 8 spaces, its bracket behind 4
C14_Witness ==
    LET long == TextString(Repeat("a", MaxText), "Unknown")
        text == "\"" \o Repeat("a", MaxText) \o "\""
    IN  /\ C14_Case
        /\ item = Map(<< <<Integer(U64(10), "Eight"),
                           Tag(U64(24), "Unknown", Array(<<long, long>>, "None"))>>,
                         <<Array(<<long, long>>, "None"), Simple(20)>> >>, "Unknown")
        /\ out.s = "{\n"
                   \o "    10_0: 24([_\n"
                   \o "        " \o text \o ",\n"
                   \o "        " \o text \o ",\n"
                   \o "    ]),\n"
                   \o "    [_\n"
                   \o "        " \o text \o ",\n"
                   \o "        " \o text \o ",\n"
                   \o "    ]: false,\n"
                   \o "}"

(***************************************************************************)
(* C15: the early return of the length estimate and the reduced budget     *)
(* max - len handed to each child never change the verdict: is_trivial(v)  *)
(* is true exactly when the full estimate of v, the sum over all of its    *)
(* elements with no early return, is less than 60.  It is stated of the    *)
(* item rendered and of every item inside it, for both builds.             *)
(***************************************************************************)
RECURSIVE C15_Full(_)
C15_Full(v) ==
    LET RECURSIVE sum(_, _)
        sum(elems, k) ==
            IF k > Len(elems) THEN 0
            ELSE (IF v.type = "Map"
                  THEN C15_Full(elems[k][1]) + C15_Full(elems[k][2])
                  ELSE C15_Full(elems[k])) + 2 + sum(elems, k + 1)
    IN  CASE v.type = "Tag" -> TagEstimate(v.tag) + C15_Full(v.value)
          [] IsContainer(v) -> 4 + sum(ElementsOf(v), 1)
          [] OTHER -> LeafEstimate(v)

\* v and the items inside it
RECURSIVE C15_Parts(_)
C15_Parts(v) ==
    {v} \cup
    CASE v.type = "Tag" -> C15_Parts(v.value)
      [] v.type = "Map" ->
            UNION {C15_Parts(v.entries[k][1]) \cup C15_Parts(v.entries[k][2]) :
                    k \in 1..Len(v.entries)}
      [] IsContainer(v) /\ v.type # "Map" ->
            UNION {C15_Parts(ElementsOf(v)[k]) : k \in 1..Len(ElementsOf(v))}
      [] OTHER -> {}

C15_ShortCircuitSound ==
    DiagCalled =>
        \A v \in C15_Parts(item) : \A checks \in BOOLEAN :
            is_trivial(v, checks).b <=> C15_Full(v) < MAX

\* the estimate returned early: it is below the full estimate
C15_Witness ==
    /\ DiagCalled
    /\ out.ok
    /\ IsContainer(item)
    /\ estimate(item, MAX, FALSE).n < C15_Full(item)
    /\ ~is_trivial(item, FALSE).b
    /\ \E v \in C15_Parts(item) : v # item /\ IsContainer(v) /\ ~Trivial(v)

(***************************************************************************)
(* C16: the length estimate never underflows: in every call estimate(max)  *)
(* made for is_trivial, on nested containers and tag values too, each      *)
(* subtraction max - len has len <= max.  A build with overflow checks     *)
(* panics on a subtraction that underflows, so both encoders return for    *)
(* every item.                                                             *)
(***************************************************************************)
C16_NoUnderflow ==
    DiagCalled =>
        /\ out.ok
        /\ \A v \in C15_Parts(item) : is_trivial(v, TRUE).ok

(***************************************************************************)
(* C17: for every Integer, Negative or definite ByteString, whatever the   *)
(* value or length and whatever the bitwidth (an explicit bitwidth too     *)
(* narrow for the value included), the hex that to_hex emits before the #  *)
(* is a well-formed header of the item: a 2-digit initial byte whose top   *)
(* three bits are the major type and whose low five bits are the value     *)
(* (Zero) or 24/25/26/27, then exactly 0/2/4/8/16 hex digits of argument   *)
(* for Zero/Eight/Sixteen/ThirtyTwo/SixtyFour.                             *)
(***************************************************************************)
C17_Case ==
    /\ HexCalled
    /\ out.ok
    /\ HasArgument(item)
    /\ item.bitwidth # "None"

\* what is emitted before the first #
C17_Header == SubSeq(out.s, 1, FirstIndex(out.s, "#") - 1)

C17_BlankFrom(h, k) == \A j \in k..Len(h) : Char(h, j) = " "

C17_WellFormed(h, w) ==
    /\ Len(h) >= 2
    /\ HexRunEnd(h, 1) = 2
    /\ LET initial == DigitVal(Char(h, 1)) * 16 + DigitVal(Char(h, 2))
       IN  /\ initial \div 32 = MajorType(item)
           /\ IF w = "Zero"
              THEN /\ U64(initial % 32) = Argument(item)
                   /\ initial % 32 < 24
                   /\ C17_BlankFrom(h, 3)
              ELSE /\ initial % 32 = AdditionalInfo(w)
                   /\ Len(h) >= 3 + ArgDigits(w)
                   /\ Char(h, 3) = " "
                   /\ HexRunEnd(h, 4) = 3 + ArgDigits(w)
                   /\ C17_BlankFrom(h, 4 + ArgDigits(w))

C17_WellFormedHeader ==
    C17_Case =>
        IF item.bitwidth = "Unknown"
        THEN \E w \in IntegerWidth \ {"Unknown"} : C17_WellFormed(C17_Header, w)
        ELSE C17_WellFormed(C17_Header, item.bitwidth)

(***************************************************************************)
(* C18: with --seq the items emitted do not depend on how the input is     *)
(* split into reads: whatever the reads return, the items emitted are the  *)
(* items of the input in their order, each once; the bytes drained from    *)
(* the buffer are the bytes of the items emitted, and the buffer holds the *)
(* rest of the bytes read so far.  (parse_bytes_partial returns None on a  *)
(* proper prefix of an item and the item with its length otherwise.)       *)
(***************************************************************************)
C18_Case == args.seq

\* the items of a byte string: those parse_bytes_partial finds one after
\* the other in the whole of it
RECURSIVE C18_Items(_)
C18_Items(bytes) ==
    LET r == parse_bytes_partial(bytes)
    IN  IF r.kind = "Some" /\ r.len >= 1
        THEN <<r.item>> \o C18_Items(SubSeq(bytes, r.len + 1, Len(bytes)))
        ELSE <<>>

RECURSIVE C18_Bytes(_)
C18_Bytes(vs) == IF vs = <<>> THEN <<>> ELSE to_bytes(Head(vs)) \o C18_Bytes(Tail(vs))

\* what emitting the items writes
RECURSIVE C18_Written(_)
C18_Written(vs) ==
    IF vs = <<>> THEN <<>>
    ELSE output_item(Head(vs), args.to, FALSE).writes
         \o (IF args.to \in {"bytes", "compact"} THEN <<>> ELSE <<Text("\n")>>)
         \o C18_Written(Tail(vs))

C18_ChunkingIndependent ==
    C18_Case =>
        \* the bytes read are those of the items emitted and then the buffer
        /\ SubSeq(Input, 1, stdin.pos) = C18_Bytes(parsed) \o buffer
        \* the items emitted are the first items of the input
        /\ IsPrefix(parsed, C18_Items(Input))
        \* each was written once, in order
        /\ IsPrefix(C18_Written(parsed), stdout)
        /\ result # Err("io") => stdout = C18_Written(parsed)
        \* a run that no read or write failed emitted all of them
        /\ pc = "done" /\ result # Err("io") => parsed = C18_Items(Input)
        \* an item is emitted as soon as the buffer holds it
        /\ pc = "read" => parse_bytes_partial(buffer).kind = "None"

\* one item was emitted and a read ended inside the second one
C18_Witness ==
    /\ C18_Case
    /\ pc = "read"
    /\ Len(C18_Items(Input)) = 2
    /\ Len(parsed) = 1
    /\ buffer # <<>>
    /\ Unread # <<>>
    /\ C18_Bytes(C18_Items(Input)) = Input

(***************************************************************************)
(* C19: with --seq main terminates: every turn of the inner loop that      *)
(* parsed an item (of a length from 1 to the length of the buffer) leaves  *)
(* the buffer strictly shorter, every read that does not end the outer     *)
(* loop consumes input, and main eventually returns, Ok or an error.       *)
(***************************************************************************)
C19_Case == args.seq

\* the item parse_bytes_partial finds in the buffer has a length the buffer has
C19_LenInBuffer ==
    LET r == parse_bytes_partial(buffer)
    IN  r.kind = "Some" => 1 <= r.len /\ r.len <= Len(buffer)

C19_Shortens ==
    C19_Case =>
        \* a turn of the inner loop that goes on to the next one
        /\ pc = "parse" /\ pc' = "parse" =>
              /\ Len(buffer') < Len(buffer)
              /\ Len(parsed') = Len(parsed) + 1
              /\ stdin' = stdin
        \* leaving the inner loop leaves the buffer as it is
        /\ pc = "parse" /\ pc' # "parse" => buffer' = buffer
        \* a read that goes on to the inner loop consumed input
        /\ pc = "read" /\ pc' = "parse" =>
              /\ stdin'.pos > stdin.pos
              /\ stdin'.pos <= Len(Input)
        /\ pc = "done" => pc' = "done"

C19_Returned == pc = "done" /\ result # Running

C19_SeqTerminates ==
    /\ [](C19_Case => C19_LenInBuffer)
    /\ [][C19_Shortens]_vars
    /\ (C19_Case ~> C19_Returned)

\* main returned Ok after several reads' worth of items
C19_Witness ==
    /\ C19_Case
    /\ C19_Returned
    /\ result = Success
    /\ Len(parsed) >= 3
    /\ stdin.pos = MaxSeqInput

====
